---- MODULE Spec2Model ----
(***************************************************************************)
(* Model of the analysis-and-cache core of the privacy policy analyzer:    *)
(* the PolicyCache durable object (TTL cache with alarm eviction), the     *)
(* process-local sliding-window rate limiter and the /api/analyze handler. *)
(***************************************************************************)
EXTENDS Integers, Sequences, FiniteSets, TLC

(***************************************************************************)
(* Bounds of the model.                                                    *)
(***************************************************************************)
MaxMinutes == 2        \* the clock runs over the minutes 0..MaxMinutes
MaxTtlMinutes == 1     \* ttlMinutes of a request ranges over 1..MaxTtlMinutes
RateLimitRequestsPerMinute == 2  \* env.RATE_LIMIT_REQUESTS_PER_MINUTE (default 10)

(***************************************************************************)
(* Program constants.                                                      *)
(***************************************************************************)
MsPerMinute == 60000   \* ttlMinutes * 60 * 1000
RateLimitWindowMinutes == 1  \* env.RATE_LIMIT_WINDOW_MINUTES || 1

Urls == {"https://a.example/privacy", "https://b.example/privacy"}
EmptyUrl == ""         \* a request body without a url
Results == {"analysisA", "analysisB"}
NoResult == ""         \* a request body without a result

\* The instants the clock can show: Date.now() at a minute boundary and one
\* millisecond after it, so that both sides of every expiry are visited.
Instants == {m * MsPerMinute + o : m \in 0..MaxMinutes, o \in {0, 1}}

LastInstant == MaxMinutes * MsPerMinute + 1

\* ttlMinutes of a store request, and the max age of a sweep request.
TtlChoices == 1..MaxTtlMinutes

MaxAgeChoices == 0..MaxTtlMinutes

VARIABLES
  now,          \* Date.now()
  cache,        \* PolicyCache.cache: the in-memory Map url -> entry
  initialized,  \* PolicyCache.initialized
  storage,      \* state.storage value under the key 'cache'
  storageSet,   \* whether state.storage holds a value under 'cache'
  alarm,        \* the pending alarm times of the durable object (at most one)
  response,     \* the response of the handler the last step ran, if it ran one
  sinceStore,   \* the request of the last successful store not followed by
                \* another store or a cleanup, or NoStore
  rateLimitStore, \* validation.js rateLimitStore: Map identifier -> timestamps
  rateOutcome,  \* the outcome of the checkRateLimit call the last step made
  admitLog,     \* per identifier, the times of the calls admitted during the
                \* last windowMs milliseconds
  rejected,     \* the identifiers that have been rejected at least once
  req,          \* the /api/analyze requests in flight: position, inputs, the
                \* calls issued so far and the response
  storeCalls,   \* the /store calls the durable object is working on: position,
                \* body, and the value storage.get returned to initialize
  resultsResponse, \* the response of handleResults, if the last step ran it
  analysis,     \* the aggregated analysis performAIAnalysis built, or NoAnalysis
  riskScores,   \* what calculateRiskScores returned for it, or NoScores
  run,          \* one run of performAIAnalysis and calculateRiskScores: its
                \* position, the inference calls made, the analysis built so
                \* far and what the chunk findings reported
  chunking,     \* the sentences given to chunkContent and the chunks returned
  validation,   \* the argument of validatePolicyUrl and what it returned
  gateway,      \* the request the router was given and how it answered
  merge,        \* the lists performAIAnalysis merges and cuts, uncut and cut
  userSession   \* the UserSession durable object: clock, map, storage, alarm, response

vars == <<now, cache, initialized, storage, storageSet, alarm, response, sinceStore,
          rateLimitStore, rateOutcome, admitLog, rejected, req, storeCalls,
          resultsResponse, analysis, riskScores, run, chunking, validation,
          gateway, merge, userSession>>

\* The variables of the cache partition, the rate limiter, the request
\* handlers and the scorer.
serviceVars == <<now, cache, initialized, storage, storageSet, alarm, response,
                 sinceStore, rateLimitStore, rateOutcome, admitLog, rejected, req,
                 storeCalls, resultsResponse, analysis, riskScores>>

(***************************************************************************)
(* Maps (JavaScript Map / array of entries) as functions on a finite       *)
(* domain.                                                                 *)
(***************************************************************************)
EmptyMap == [k \in {} |-> 0]

MapSet(m, k, v) == [x \in (DOMAIN m) \cup {k} |-> IF x = k THEN v ELSE m[x]]

MapDeleteAll(m, ks) == [x \in (DOMAIN m) \ ks |-> m[x]]

MinOf(S) == CHOOSE x \in S : \A y \in S : x <= y

NoStore == [url |-> EmptyUrl, result |-> NoResult, timestamp |-> 0, expiresAt |-> 0]

NoBody == [result |-> NoResult, timestamp |-> 0, expiresAt |-> 0]

\* A response, with the request parameters and counters it answers to.
Resp(op, url, status, body) ==
  [op |-> op, url |-> url, status |-> status, body |-> body,
   ttlMinutes |-> 0, removed |-> 0]

NoResponse == Resp("none", EmptyUrl, 0, NoBody)

\* handleResults has not run in the last step.
NoResultsResponse == [id |-> "", url |-> EmptyUrl, status |-> 0, body |-> NoBody]

(***************************************************************************)
(* PolicyCache                                                             *)
(***************************************************************************)
\* constructor(state): a fresh instance has an empty map and is not initialized.
Constructed == [cache |-> EmptyMap, initialized |-> FALSE]

\* initialize(): the map a handler sees after `await this.initialize()`.
Initialize ==
  IF initialized THEN cache
  ELSE IF storageSet THEN storage
  ELSE cache

\* An entry whose ttl is added in the wrong unit (minutes as milliseconds).
CacheEntryTtlAsMs(result, ttlMinutes) ==
  [result |-> result,
   timestamp |-> now,
   expiresAt |-> now + ttlMinutes,
   ttlMinutes |-> ttlMinutes]

\* handleStore: the entry built from the request.
CacheEntry(result, ttlMinutes) ==
  [result |-> result,
   timestamp |-> now,
   expiresAt |-> now + ttlMinutes * MsPerMinute,
   ttlMinutes |-> ttlMinutes]

\* handleStore: the alarm time requested after a store.
StoreAlarm(entry, entries) == entry.expiresAt

HandleStore(url, result, ttlMinutes) ==
  LET c0 == Initialize
      entry == CacheEntry(result, ttlMinutes)
      c1 == MapSet(c0, url, entry)
  IN  /\ initialized' = TRUE
      /\ IF url = EmptyUrl \/ result = NoResult
         THEN /\ cache' = c0
              /\ response' = Resp("store", url, 400, NoBody)
              /\ UNCHANGED <<storage, storageSet, alarm, sinceStore>>
         ELSE /\ cache' = c1
              /\ storage' = c1
              /\ storageSet' = TRUE
              /\ alarm' = {StoreAlarm(entry, c1)}
              /\ response' = Resp("store", url, 200, NoBody)
              /\ sinceStore' = [url |-> url, result |-> result,
                                timestamp |-> entry.timestamp,
                                expiresAt |-> entry.expiresAt]

\* A lookup that still serves an entry at the instant it expires.
IsLiveInclusive(entry) == entry.expiresAt >= now

\* handleCheck / handleGet: whether the entry is served.
IsLive(entry) == entry.expiresAt > now

\* A lookup that deletes the expired entry it finds and persists the map.
HandleCheckEvicting(url) ==
  LET c0 == Initialize
      expired == url \in DOMAIN c0 /\ ~IsLive(c0[url])
      c1 == IF expired THEN MapDeleteAll(c0, {url}) ELSE c0
  IN  /\ initialized' = TRUE
      /\ cache' = c1
      /\ response' =
           IF url = EmptyUrl THEN Resp("check", url, 400, NoBody)
           ELSE IF url \in DOMAIN c0 /\ IsLive(c0[url])
                THEN Resp("check", url, 200,
                          [result |-> c0[url].result,
                           timestamp |-> c0[url].timestamp,
                           expiresAt |-> c0[url].expiresAt])
                ELSE Resp("check", url, 404, NoBody)
      /\ IF expired
         THEN storage' = c1 /\ storageSet' = TRUE
         ELSE UNCHANGED <<storage, storageSet>>
      /\ UNCHANGED <<alarm, sinceStore>>

HandleCheck(url) ==
  LET c0 == Initialize
  IN  /\ initialized' = TRUE
      /\ cache' = c0
      /\ response' =
           IF url = EmptyUrl THEN Resp("check", url, 400, NoBody)
           ELSE IF url \in DOMAIN c0 /\ IsLive(c0[url])
                THEN Resp("check", url, 200,
                          [result |-> c0[url].result,
                           timestamp |-> c0[url].timestamp,
                           expiresAt |-> c0[url].expiresAt])
                ELSE Resp("check", url, 404, NoBody)
      /\ UNCHANGED <<storage, storageSet, alarm, sinceStore>>

\* A sweep that selects by expiry instead of by creation time.
CleanupRemovedByExpiry(entries, ttlMinutes) ==
  {k \in DOMAIN entries : entries[k].expiresAt < now - ttlMinutes * MsPerMinute}

\* handleCleanup: the keys the sweep deletes.
CleanupRemoved(entries, ttlMinutes) ==
  {k \in DOMAIN entries : entries[k].timestamp < now - ttlMinutes * MsPerMinute}

HandleCleanup(ttlMinutes) ==
  LET c0 == Initialize
      c1 == MapDeleteAll(c0, CleanupRemoved(c0, ttlMinutes))
  IN  /\ initialized' = TRUE
      /\ cache' = c1
      /\ storage' = c1
      /\ storageSet' = TRUE
      /\ response' = [Resp("cleanup", EmptyUrl, 200, NoBody) EXCEPT
                        !.ttlMinutes = ttlMinutes,
                        !.removed = Cardinality(CleanupRemoved(c0, ttlMinutes))]
      /\ sinceStore' = NoStore
      /\ UNCHANGED alarm

\* alarm(): the keys the alarm handler deletes.
AlarmRemoved(entries) == {k \in DOMAIN entries : entries[k].expiresAt <= now}

\* alarm(): the map the alarm handler works on (it does not call initialize()).
AlarmEntries == cache

\* The platform runs alarm() once the pending alarm time has been reached; the
\* alarm that fired is no longer pending while the handler runs.
Alarm ==
  LET c0 == AlarmEntries
      removed == AlarmRemoved(c0)
      c1 == MapDeleteAll(c0, removed)
  IN  /\ \E t \in alarm : t <= now
      /\ cache' = c1
      /\ IF removed # {}
         THEN storage' = c1 /\ storageSet' = TRUE
         ELSE UNCHANGED <<storage, storageSet>>
      /\ alarm' = IF DOMAIN c1 # {}
                  THEN {MinOf({c1[k].expiresAt : k \in DOMAIN c1})}
                  ELSE {}
      /\ response' = [Resp("alarm", EmptyUrl, 200, NoBody) EXCEPT
                        !.removed = Cardinality(removed)]
      /\ UNCHANGED <<initialized, sinceStore>>

\* The platform evicts the idle instance from memory; the next event runs the
\* constructor again. Storage and the pending alarm survive.
Restart ==
  /\ initialized
  /\ cache' = Constructed.cache
  /\ initialized' = Constructed.initialized
  /\ response' = NoResponse
  /\ UNCHANGED <<storage, storageSet, alarm, sinceStore>>

(***************************************************************************)
(* Risk scoring (api/results.js PolicyAnalyzer.calculateRiskScores)        *)
(***************************************************************************)
MaxRedFlags == 1

MaxSections == 2

Ratings == {"green", "yellow", "red"}

\* What analysis.compliance.gdpr and .ccpa can hold: the model's answer is
\* copied as it is (line 267), and the field may be missing.
ComplianceTags == {"compliant", "partially", "non-compliant", "unknown", "undefined"}

\* A section's userRights: missing (-1), or an array of that length.
UserRightsChoices == {0 - 1, 0, 1}

SectionLists == UNION {[1..n -> UserRightsChoices] : n \in 0..MaxSections}

\* The aggregated analysis as far as calculateRiskScores reads it: the number
\* of red flags, the two compliance tags, and the sections' userRights.
Analyses ==
  [redFlags : 0..MaxRedFlags, gdpr : ComplianceTags, ccpa : ComplianceTags,
   sections : SectionLists]

NoAnalysis == [redFlags |-> 0, gdpr |-> "none", ccpa |-> "none", sections |-> <<>>]

NoScores == [overall |-> "none", regulatory |-> "none", transparency |-> "none",
             userRights |-> "none"]

\* An overall rating that looks for yellow before red.
OverallRiskYellowFirst(risks) ==
  IF \E i \in DOMAIN risks : risks[i] = "yellow" THEN "yellow"
  ELSE IF \E i \in DOMAIN risks : risks[i] = "red" THEN "red"
  ELSE "green"

\* Lines 402-404: risks.includes('red') ? 'red' : risks.includes('yellow') ?
\* 'yellow' : 'green'.
OverallRisk(risks) ==
  IF \E i \in DOMAIN risks : risks[i] = "red" THEN "red"
  ELSE IF \E i \in DOMAIN risks : risks[i] = "yellow" THEN "yellow"
  ELSE "green"

\* Lines 378-391: the regulatory rating; the compliance branch assigns after
\* the red-flag branch.
RegulatoryRisk(a) ==
  LET afterFlags == IF a.redFlags > 0 THEN "red" ELSE "green"
  IN  IF a.gdpr = "non-compliant" \/ a.ccpa = "non-compliant" THEN "red"
      ELSE IF a.gdpr = "partially" \/ a.ccpa = "partially" THEN "yellow"
      ELSE afterFlags

\* Lines 379-382.
TransparencyRisk(a) == IF a.redFlags > 0 THEN "yellow" ELSE "green"

\* The user rights rated green whatever the sections say.
UserRightsRiskGreen(a) == "green"

\* Lines 393-400: sections.some(s => s.userRights && s.userRights.length > 0).
UserRightsRisk(a) ==
  IF \E i \in DOMAIN a.sections : a.sections[i] > 0 THEN "green" ELSE "yellow"

\* calculateRiskScores(analysis).
CalculateRiskScores(a) ==
  [overall |-> OverallRisk(<<RegulatoryRisk(a), TransparencyRisk(a), UserRightsRisk(a)>>),
   regulatory |-> RegulatoryRisk(a),
   transparency |-> TransparencyRisk(a),
   userRights |-> UserRightsRisk(a)]

(***************************************************************************)
(* The analysis of the chunks (api/results.js PolicyAnalyzer               *)
(* performAIAnalysis, analyzeChunk, generateSummaryAnalysis)               *)
(***************************************************************************)
MaxChunks == 4

\* chunks.slice(0, 3) (line 252).
SampleSize == 3

\* A section that is the JSON value null.
NullSection == 0 - 2

\* Lines 242-249: the analysis before the first chunk, with the lists given
\* by their lengths.
FreshAnalysis ==
  [redFlags |-> 0, gdpr |-> "undefined", ccpa |-> "undefined", sections |-> <<>>,
   executiveSummary |-> "", recommendations |-> 0]

NoRun ==
  [pc |-> "idle", chunks |-> 0, next |-> 1, inFlight |-> 0, log |-> <<>>,
   analysis |-> FreshAnalysis, scores |-> NoScores,
   sawNonCompliant |-> FALSE, sawPartially |-> FALSE, sawRedFlag |-> FALSE,
   allGdprCompliant |-> TRUE, answered |-> "no object", failedAt |-> "none"]

NoChunking == [sentences |-> <<>>, greedy |-> <<>>, chunks |-> <<>>, done |-> FALSE]

NoHref == [protocol |-> "", hostname |-> <<>>, pathname |-> ""]

NoValidation ==
  [input |-> [type |-> "none", scheme |-> "", host |-> <<>>, path |-> ""],
   outcome |-> "none", error |-> "", href |-> NoHref]

NoGateway ==
  [pc |-> "idle",
   request |-> [method |-> "", pathname |-> "", contentType |-> "", large |-> FALSE,
                origin |-> [scheme |-> "", rest |-> ""], version |-> <<>>],
   status |-> 0, handler |-> "none", health |-> "none"]

\* The JSON value null.
NullFinding ==
  [kind |-> "null", redFlags |-> 0, gdpr |-> "undefined", ccpa |-> "undefined",
   userRights |-> 0 - 1]

\* analyzeChunk lines 327-332: the placeholder finding.
PlaceholderFinding ==
  [kind |-> "object", redFlags |-> 0, gdpr |-> "unknown", ccpa |-> "unknown",
   userRights |-> 0]

\* The outcomes of one chunk inference call: env.AI.run rejects, its output
\* is not JSON, or it is JSON with the value given: null, an object with a
\* number of red flags, the two tags (the key may be missing) and the
\* userRights, or an object whose keyPoints is not a list (a number).
ChunkOutcomes ==
  [kind : {"call throws", "not JSON"}, value : {NullFinding}]
    \cup [kind : {"JSON"},
          value : {NullFinding}
                    \cup [kind : {"object"}, redFlags : 0..1,
                          gdpr : ComplianceTags \ {"unknown"},
                          ccpa : ComplianceTags \ {"unknown"},
                          userRights : UserRightsChoices]
                    \cup [kind : {"keyPoints not a list"}, redFlags : {1},
                          gdpr : {"non-compliant"}, ccpa : {"undefined"},
                          userRights : {1}]]

\* analyzeChunk lines 312-333: what the call's outcome becomes.
AnalyzeChunk(outcome) ==
  IF outcome.kind = "JSON" THEN outcome.value ELSE PlaceholderFinding

\* The section pushed at line 257, as calculateRiskScores reads it.
SectionOf(finding) ==
  IF finding.kind = "null" THEN NullSection ELSE finding.userRights

\* Object.assign(analysis.compliance, chunkAnalysis.compliance) (line 267)
\* for one key: a key the chunk has replaces the value.
MergeTag(old, new) == IF new = "undefined" THEN old ELSE new

\* Lines 256-271: the finding is pushed to sections, then its keyPoints,
\* redFlags and compliance are merged; reading keyPoints of null, or
\* spreading keyPoints that is not a list, throws into the catch block and
\* the rest of the finding is skipped.
Aggregate(a, finding) ==
  LET pushed == [a EXCEPT !.sections = Append(@, SectionOf(finding))]
  IN  IF finding.kind = "object"
      THEN [pushed EXCEPT !.redFlags = @ + finding.redFlags,
                          !.gdpr = MergeTag(@, finding.gdpr),
                          !.ccpa = MergeTag(@, finding.ccpa)]
      ELSE pushed

\* Every chunk sampled.
SampleCountAll(chunks) == chunks

\* The number of chunks that get an inference call.
SampleCount(chunks) == IF chunks < SampleSize THEN chunks ELSE SampleSize

\* analyzePolicy lines 112-115: chunkContent has returned the chunks and
\* performAIAnalysis starts.
RunStarts ==
  /\ run.pc \in {"idle", "done", "failed"}
  /\ \E n \in 0..MaxChunks : run' = [NoRun EXCEPT !.pc = "loop", !.chunks = n]
  /\ UNCHANGED <<serviceVars, chunking, validation, gateway, merge, userSession>>

\* Lines 254-256, 313: the loop reaches the next sampled chunk and analyzeChunk
\* calls env.AI.run.
ChunkCallStarts ==
  /\ run.pc = "loop"
  /\ run.next <= SampleCount(run.chunks)
  /\ run' = [run EXCEPT !.pc = "chunkCall", !.inFlight = @ + 1,
                         !.log = Append(@, <<"chunk", run.next, "start">>)]
  /\ UNCHANGED <<serviceVars, chunking, validation, gateway, merge, userSession>>

\* Lines 313-333, 256-271: the call ends, analyzeChunk returns a finding and
\* the loop body aggregates it.
ChunkCallReturns ==
  /\ run.pc = "chunkCall"
  /\ \E outcome \in ChunkOutcomes :
       LET finding == AnalyzeChunk(outcome)
           tags == IF outcome.kind = "JSON" /\ outcome.value.kind # "null"
                   THEN {outcome.value.gdpr, outcome.value.ccpa} ELSE {}
       IN  run' = [run EXCEPT
                     !.pc = "loop", !.inFlight = @ - 1, !.next = @ + 1,
                     !.log = Append(@, <<"chunk", run.next, "end">>),
                     !.analysis = Aggregate(@, finding),
                     !.sawNonCompliant = @ \/ "non-compliant" \in tags,
                     !.sawPartially = @ \/ "partially" \in tags,
                     !.sawRedFlag = @ \/ finding.redFlags > 0,
                     !.allGdprCompliant = @ /\ finding.kind # "null"
                                            /\ finding.gdpr = "compliant"]
  /\ UNCHANGED <<serviceVars, chunking, validation, gateway, merge, userSession>>

\* slice(0, 5) of redFlags and of recommendations (lines 287-288).
ListLimit == 5

\* The JSON value null as the summary.
NullSummary == [kind |-> "null", executiveSummary |-> "undefined", recommendations |-> 0 - 1]

\* The outcomes of the summary inference call: env.AI.run rejects, its
\* output is not JSON, or it is JSON with the value given: null, or an object
\* with the executiveSummary (the key may be missing) and the number of
\* recommendations (-1: the key is missing).
SummaryOutcomes ==
  [kind : {"call throws", "not JSON"}, value : {NullSummary}]
    \cup [kind : {"JSON"},
          value : {NullSummary}
                    \cup [kind : {"object"},
                          executiveSummary : {"summary text", "", "undefined"},
                          recommendations : {0 - 1, 0, 3, 6}]]

\* generateSummaryAnalysis lines 351-369: the parsed answer, or the fallback
\* summary of lines 365-368.
GenerateSummaryAnalysis(outcome) ==
  IF outcome.kind = "JSON" THEN outcome.value
  ELSE [kind |-> "object",
        executiveSummary |-> "Analysis completed with limited AI processing.",
        recommendations |-> 2]

\* Lines 275-283: the summary is copied into the analysis; reading a field of
\* null throws into the catch block.
WithSummary(a, summary) ==
  IF summary.kind = "null"
  THEN [a EXCEPT !.executiveSummary = "Unable to generate summary analysis.",
                 !.recommendations = 1]
  ELSE [a EXCEPT !.executiveSummary = summary.executiveSummary,
                 !.recommendations = summary.recommendations]

\* Line 288 throws when recommendations is undefined.
LimitThrows(a) == a.recommendations < 0

\* Lines 286-288: slice(0, 5).
Limited(a) ==
  [a EXCEPT !.redFlags = IF @ < ListLimit THEN @ ELSE ListLimit,
            !.recommendations = IF @ < ListLimit THEN @ ELSE ListLimit]

\* calculateRiskScores lines 394-396: sections.some(...) reads userRights of
\* each section in turn until one has a non-empty list; reading it of null
\* throws.
ScoreThrows(a) ==
  \E i \in DOMAIN a.sections :
     /\ a.sections[i] = NullSection
     /\ \A j \in 1..(i - 1) : a.sections[j] <= 0

\* Lines 274-276, 352: after the last sampled chunk generateSummaryAnalysis
\* calls env.AI.run.
SummaryCallStarts ==
  /\ run.pc = "loop"
  /\ run.next > SampleCount(run.chunks)
  /\ run' = [run EXCEPT !.pc = "summaryCall", !.inFlight = @ + 1,
                         !.log = Append(@, <<"summary", 0, "start">>)]
  /\ UNCHANGED <<serviceVars, chunking, validation, gateway, merge, userSession>>

\* Lines 352-369, 276-290, analyzePolicy lines 115-135: the call ends, the
\* summary is copied, the lists are cut, and the analysis is scored; an
\* exception at line 288 or in calculateRiskScores fails analyzePolicy.
SummaryCallReturns ==
  /\ run.pc = "summaryCall"
  /\ \E outcome \in SummaryOutcomes :
       LET a1 == WithSummary(run.analysis, GenerateSummaryAnalysis(outcome))
           returned == [run EXCEPT !.inFlight = @ - 1,
                                   !.log = Append(@, <<"summary", 0, "end">>),
                                   !.answered = IF outcome.kind = "JSON"
                                                   /\ outcome.value.kind = "object"
                                                THEN outcome.value.executiveSummary
                                                ELSE "no object"]
       IN  IF LimitThrows(a1)
           THEN run' = [returned EXCEPT !.pc = "failed", !.analysis = a1,
                                        !.failedAt = "recommendations.slice"]
           ELSE IF ScoreThrows(Limited(a1))
           THEN run' = [returned EXCEPT !.pc = "failed", !.analysis = Limited(a1),
                                        !.failedAt = "calculateRiskScores"]
           ELSE run' = [returned EXCEPT !.pc = "done", !.analysis = Limited(a1),
                                        !.scores = CalculateRiskScores(Limited(a1))]
  /\ UNCHANGED <<serviceVars, chunking, validation, gateway, merge, userSession>>

(***************************************************************************)
(* The lists of the analysis (api/results.js performAIAnalysis lines       *)
(* 242-290).  An item of a chunk's list is <<chunk, position>>, a          *)
(* recommendation of the summary is <<0, position>>.                       *)
(***************************************************************************)
\* slice(0, 10) of keyPoints (line 286).
KeyPointsLimit == 10

\* Lines 242-249: the lists before the first chunk; merged holds the lists
\* as they are before lines 286-288 cut them.
NoMerge ==
  [pc |-> "idle", chunks |-> 0, next |-> 1,
   keyPoints |-> <<>>, redFlags |-> <<>>, recommendations |-> <<>>,
   merged |-> [keyPoints |-> <<>>, redFlags |-> <<>>, recommendations |-> <<>>]]

\* The n items of the list of chunk c.
Items(c, n) == [i \in 1..n |-> <<c, i>>]

\* What analyzeChunk returns, by the lengths of its lists: a parsed object
\* (a missing key adds what an empty list adds: nothing), the JSON value
\* null, an object whose keyPoints is a number, or the placeholder of lines
\* 327-332 with its one key point and no red flag.
ChunkLists ==
  [kind : {"object"}, keyPoints : {0, 2, 5}, redFlags : {0, 3}]
    \cup [kind : {"null", "keyPoints not a list"}, keyPoints : {0}, redFlags : {3}]
    \cup [kind : {"placeholder"}, keyPoints : {1}, redFlags : {0}]

\* Lines 260-265: push(...chunkAnalysis.keyPoints), then
\* push(...chunkAnalysis.redFlags); reading keyPoints of null and spreading
\* a number throw into the catch block of line 269 before anything is pushed.
PushLists(lists, c, finding) ==
  IF finding.kind \in {"null", "keyPoints not a list"} THEN lists
  ELSE [lists EXCEPT !.keyPoints = @ \o Items(c, finding.keyPoints),
                     !.redFlags = @ \o Items(c, finding.redFlags)]

\* A cut that keeps the last items.
SlicedFromEnd(list, limit) ==
  SubSeq(list, IF Len(list) < limit THEN 1 ELSE Len(list) - limit + 1, Len(list))

\* list.slice(0, limit) (lines 286-288).
Sliced(list, limit) ==
  SubSeq(list, 1, IF Len(list) < limit THEN Len(list) ELSE limit)

\* performAIAnalysis is called with the chunks.
MergeStarts ==
  /\ merge.pc \in {"idle", "done", "failed"}
  /\ \E n \in 0..MaxChunks : merge' = [NoMerge EXCEPT !.pc = "loop", !.chunks = n]
  /\ UNCHANGED <<serviceVars, run, chunking, validation, gateway, userSession>>

\* Lines 254-271: one pass of the loop over the sampled chunks.
MergeChunk ==
  /\ merge.pc = "loop"
  /\ merge.next <= SampleCount(merge.chunks)
  /\ \E finding \in ChunkLists :
       merge' = [merge EXCEPT !.next = @ + 1,
                              !.merged = PushLists(@, merge.next, finding)]
  /\ UNCHANGED <<serviceVars, run, chunking, validation, gateway, userSession>>

\* Lines 274-290: the recommendations of the summary (or of the catch block)
\* replace the empty list, the three lists are cut and the analysis is
\* returned; line 288 throws when recommendations is undefined.
MergeReturns ==
  /\ merge.pc = "loop"
  /\ merge.next > SampleCount(merge.chunks)
  /\ \E outcome \in SummaryOutcomes :
       LET a == WithSummary(FreshAnalysis, GenerateSummaryAnalysis(outcome))
           lists == [merge.merged EXCEPT
                       !.recommendations = Items(0, IF LimitThrows(a) THEN 0
                                                    ELSE a.recommendations)]
       IN  IF LimitThrows(a)
           THEN merge' = [merge EXCEPT !.pc = "failed", !.merged = lists]
           ELSE merge' = [merge EXCEPT
                            !.pc = "done", !.merged = lists,
                            !.keyPoints = Sliced(lists.keyPoints, KeyPointsLimit),
                            !.redFlags = Sliced(lists.redFlags, ListLimit),
                            !.recommendations = Sliced(lists.recommendations, ListLimit)]
  /\ UNCHANGED <<serviceVars, run, chunking, validation, gateway, userSession>>

(***************************************************************************)
(* UserSession (durable-objects/user-session.js)                           *)
(*                                                                         *)
(* Date.now() is counted in days.  An analysis pushed to a history is      *)
(* modelled by its number n among the analyses recorded for the session    *)
(* since it was created or cleared, and the timestamp it got.              *)
(***************************************************************************)
MaxDays == 32

\* The days over which histories are followed.
RequestDays == 2

\* 30 * 24 * 60 * 60 * 1000 ms (line 231), in days.
SessionMaxAgeDays == 30

\* 24 * 60 * 60 * 1000 ms (line 247), in days.
AlarmIntervalDays == 1

\* The cap of a history: history.length > 100, slice(-100) (lines 166-167).
\* The histories followed here are cut at a cap of 3 instead of 100.
HistoryLimit == 3

\* The analyses recorded for a session between two resets of its history.
MaxAnalyses == HistoryLimit + 2

UserIds == {"user-1"}

\* A request without a userId.
NoUserId == ""

\* Lines 7-11 on a store nothing was written to.
NoUserSession ==
  [clock |-> 0, sessions |-> EmptyMap, initialized |-> FALSE, storage |-> EmptyMap,
   alarm |-> {}, response |-> [op |-> "none", status |-> 0, total |-> 0]]

\* fetch line 26, initialize(): the object after `await this.initialize()`.
SessionInitialize(s) ==
  IF s.initialized THEN s
  ELSE [s EXCEPT !.sessions = s.storage, !.initialized = TRUE]

\* history.sort((a, b) => b.timestamp - a.timestamp) (lines 115-116): newest
\* first, entries with equal timestamps in the order they had.
RECURSIVE SortNewestFirst(_)
SortNewestFirst(history) ==
  IF history = <<>> THEN <<>>
  ELSE LET newest == CHOOSE t \in {history[i].timestamp : i \in DOMAIN history} :
                        \A i \in DOMAIN history : history[i].timestamp <= t
       IN  SelectSeq(history, LAMBDA e : e.timestamp = newest)
             \o SortNewestFirst(SelectSeq(history, LAMBDA e : e.timestamp # newest))

\* Lines 166-168: slice(-100) once the history is longer than the cap.
KeepLast(history) ==
  IF Len(history) > HistoryLimit
  THEN SubSeq(history, Len(history) - HistoryLimit + 1, Len(history))
  ELSE history

\* handleCreateSession (lines 49-89).
HandleCreateSession ==
  /\ \E userId \in UserIds \cup {NoUserId}, preferences \in SUBSET {"theme"} :
       LET s == SessionInitialize(userSession)
           created == MapSet(s.sessions, userId,
                             [preferences |-> preferences, createdAt |-> s.clock,
                              lastActivity |-> s.clock, analysisCount |-> 0,
                              history |-> <<>>])
       IN  IF userId = NoUserId
           THEN userSession' = [s EXCEPT !.response = [op |-> "create", status |-> 400,
                                                       total |-> 0]]
           ELSE userSession' = [s EXCEPT !.sessions = created, !.storage = created,
                                         !.response = [op |-> "create", status |-> 200,
                                                       total |-> 0]]
  /\ UNCHANGED <<serviceVars, run, chunking, validation, gateway, merge>>

\* handleGetHistory (lines 91-134): sort() sorts the session's own array.
HandleGetHistory ==
  /\ \E userId \in UserIds \cup {NoUserId} :
       LET s == SessionInitialize(userSession)
       IN  IF userId = NoUserId
           THEN userSession' = [s EXCEPT !.response = [op |-> "history", status |-> 400,
                                                       total |-> 0]]
           ELSE IF userId \notin DOMAIN s.sessions
           THEN userSession' = [s EXCEPT !.response = [op |-> "history", status |-> 200,
                                                       total |-> 0]]
           ELSE userSession' =
                  [s EXCEPT !.sessions[userId].history = SortNewestFirst(@),
                            !.response = [op |-> "history", status |-> 200,
                                          total |-> Len(s.sessions[userId].history)]]
  /\ UNCHANGED <<serviceVars, run, chunking, validation, gateway, merge>>

\* handleUpdateSession (lines 136-191); a body carries an analysis only
\* while fewer than maxAnalyses were recorded for the session.
HandleUpdateSession(maxAnalyses) ==
  /\ \E userId \in UserIds \cup {NoUserId}, withAnalysis \in BOOLEAN,
        preferences \in SUBSET {"theme"} :
       LET s == SessionInitialize(userSession)
           old == s.sessions[userId]
           pushed == Append(old.history,
                            [n |-> old.analysisCount + 1, timestamp |-> s.clock])
           updated == [old EXCEPT
                         !.lastActivity = s.clock,
                         !.analysisCount = IF withAnalysis THEN @ + 1 ELSE @,
                         !.history = IF withAnalysis THEN KeepLast(pushed) ELSE @,
                         !.preferences = @ \cup preferences]
           sessions == MapSet(s.sessions, userId, updated)
       IN  IF userId = NoUserId
           THEN userSession' = [s EXCEPT !.response = [op |-> "update", status |-> 400,
                                                       total |-> 0]]
           ELSE IF userId \notin DOMAIN s.sessions
           THEN userSession' = [s EXCEPT !.response = [op |-> "update", status |-> 404,
                                                       total |-> 0]]
           ELSE /\ withAnalysis => old.analysisCount < maxAnalyses
                /\ userSession' = [s EXCEPT !.sessions = sessions, !.storage = sessions,
                                            !.response = [op |-> "update", status |-> 200,
                                                          total |-> 0]]
  /\ UNCHANGED <<serviceVars, run, chunking, validation, gateway, merge>>

\* handleClearHistory (lines 193-225).
HandleClearHistory ==
  /\ \E userId \in UserIds \cup {NoUserId} :
       LET s == SessionInitialize(userSession)
           cleared == [s.sessions EXCEPT ![userId].history = <<>>,
                                         ![userId].analysisCount = 0]
       IN  IF userId = NoUserId
           THEN userSession' = [s EXCEPT !.response = [op |-> "clear", status |-> 400,
                                                       total |-> 0]]
           ELSE IF userId \notin DOMAIN s.sessions
           THEN userSession' = [s EXCEPT !.response = [op |-> "clear", status |-> 200,
                                                       total |-> 0]]
           ELSE userSession' = [s EXCEPT !.sessions = cleared, !.storage = cleared,
                                         !.response = [op |-> "clear", status |-> 200,
                                                       total |-> 0]]
  /\ UNCHANGED <<serviceVars, run, chunking, validation, gateway, merge>>

\* alarm() (lines 227-248): it works on this.sessions as it is, without
\* initialize(), and always sets the next alarm.
SessionAlarm(s) ==
  LET cutoff == s.clock - SessionMaxAgeDays
      removed == {u \in DOMAIN s.sessions : s.sessions[u].lastActivity < cutoff}
      kept == MapDeleteAll(s.sessions, removed)
  IN  [s EXCEPT !.sessions = kept,
                !.storage = IF removed # {} THEN kept ELSE @,
                !.alarm = {s.clock + AlarmIntervalDays},
                !.response = [op |-> "alarm", status |-> 0,
                              total |-> Cardinality(removed)]]

\* The platform: a day passes, and it runs alarm() if the pending alarm
\* (storage.setAlarm, line 247, is the only call that sets one) has come due.
SessionDayPasses(lastDay) ==
  /\ userSession.clock < lastDay
  /\ LET s == [userSession EXCEPT !.clock = @ + 1,
                                  !.response = [op |-> "none", status |-> 0, total |-> 0]]
     IN  userSession' = IF \E t \in s.alarm : t <= s.clock THEN SessionAlarm(s) ELSE s
  /\ UNCHANGED <<serviceVars, run, chunking, validation, gateway, merge>>

\* The platform evicts the idle object; the constructor (lines 7-11) runs
\* again for the next event.  Storage and the alarm survive.
SessionEvict ==
  /\ userSession.initialized
  /\ userSession' = [userSession EXCEPT
                       !.sessions = EmptyMap, !.initialized = FALSE,
                       !.response = [op |-> "none", status |-> 0, total |-> 0]]
  /\ UNCHANGED <<serviceVars, run, chunking, validation, gateway, merge>>

(***************************************************************************)
(* The chunker (api/results.js PolicyAnalyzer.chunkContent)                *)
(*                                                                         *)
(* A text is modelled by the sentences that content.split(/[.!?]+/) and    *)
(* the filter of line 219 leave: each has a number of leading whitespace   *)
(* characters (the blank after the previous full stop) and a number of     *)
(* other characters, more than 10.  A chunk is modelled by its length and  *)
(* the index of its first sentence.                                        *)
(***************************************************************************)
MaxSentences == 3
MaxChunkSize == 2000        \* maxChunkSize = 2000 (line 218)
MinChunkLength == 50        \* chunk.length > 50 (line 238)
SeparatorLength == 2        \* '. ' (line 230)

SentenceLists ==
  UNION {[1..n -> [lead : 0..1, body : {11, 50, 51, 1000, 2001}]] : n \in 0..MaxSentences}

SentenceLength(s) == s.lead + s.body

\* Line 225: (currentChunk + sentence).length > maxChunkSize.
Overflows(current, s) == current.len + SentenceLength(s) > MaxChunkSize

\* currentChunk.trim() of lines 226-227 and 234-235: the chunk without the
\* leading whitespace of its first sentence.
Trimmed(current) == [length |-> current.len - current.lead, first |-> current.first]

\* Lines 226-228, 234-236: the current chunk is pushed if its trim is not
\* empty.
Pushed(chunks, current) ==
  IF Trimmed(current).length > 0 THEN Append(chunks, Trimmed(current)) ELSE chunks

\* Line 230: currentChunk += (currentChunk ? '. ' : '') + sentence.
Extended(current, s, i) ==
  IF current.len > 0
  THEN [current EXCEPT !.len = @ + SeparatorLength + SentenceLength(s)]
  ELSE [len |-> SentenceLength(s), lead |-> s.lead, first |-> i]

\* Lines 221-236: the loop over the sentences from the i-th on, and the push
\* of what is left.
RECURSIVE ChunkLoop(_, _, _, _)
ChunkLoop(sentences, i, current, chunks) ==
  IF i > Len(sentences) THEN Pushed(chunks, current)
  ELSE IF Overflows(current, sentences[i])
  THEN ChunkLoop(sentences, i + 1,
                 [len |-> SentenceLength(sentences[i]), lead |-> sentences[i].lead,
                  first |-> i],
                 Pushed(chunks, current))
  ELSE ChunkLoop(sentences, i + 1, Extended(current, sentences[i], i), chunks)

\* Lines 221-236 from currentChunk = '' and chunks = [].
GreedyChunks(sentences) ==
  ChunkLoop(sentences, 1, [len |-> 0, lead |-> 0, first |-> 0], <<>>)

\* Line 238: the filter chunk.length > 50.
LongEnough(chunk) == chunk.length > MinChunkLength

\* chunkContent(content).
ChunkContent(sentences) == SelectSeq(GreedyChunks(sentences), LongEnough)

\* analyzePolicy line 112: an analysis chunks its one text.
ChunkContentCall ==
  /\ ~chunking.done
  /\ \E sentences \in SentenceLists :
       chunking' = [sentences |-> sentences, greedy |-> GreedyChunks(sentences),
                    chunks |-> ChunkContent(sentences), done |-> TRUE]
  /\ UNCHANGED <<serviceVars, run, validation, gateway, merge, userSession>>

(***************************************************************************)
(* Rate limiter (utils/validation.js)                                      *)
(***************************************************************************)
Identifiers == {"203.0.113.7", "unknown"}

WindowMs == RateLimitWindowMinutes * MsPerMinute

NoOutcome == [identifier |-> "", outcome |-> "none"]

\* A filter that keeps a timestamp exactly windowMs old.
ValidRequestsInclusive(requests) ==
  SelectSeq(requests, LAMBDA time : now - time <= WindowMs)

\* userRequests.filter(time => now - time < windowMs)
ValidRequests(requests) ==
  SelectSeq(requests, LAMBDA time : now - time < WindowMs)

\* A cap test that lets one request too many through.
AtCapStrict(validRequests) == Len(validRequests) > RateLimitRequestsPerMinute

\* validRequests.length >= maxRequests
AtCap(validRequests) == Len(validRequests) >= RateLimitRequestsPerMinute

\* cleanupRateLimitStore(now, windowMs)
CleanupRateLimitStore(store) ==
  LET kept == {k \in DOMAIN store : ValidRequests(store[k]) # <<>>}
  IN  [k \in kept |-> ValidRequests(store[k])]

\* checkRateLimit recording the attempt before it throws.
CheckRateLimitRecordingRejections(identifier, cleanup) ==
  LET userRequests == IF identifier \in DOMAIN rateLimitStore
                      THEN rateLimitStore[identifier] ELSE <<>>
      validRequests == ValidRequests(userRequests)
      stored == MapSet(rateLimitStore, identifier, Append(validRequests, now))
  IN  IF AtCap(validRequests)
      THEN /\ rateOutcome' = [identifier |-> identifier, outcome |-> "rejected"]
           /\ rejected' = rejected \cup {identifier}
           /\ rateLimitStore' = stored
           /\ UNCHANGED admitLog
      ELSE /\ rateOutcome' = [identifier |-> identifier, outcome |-> "admitted"]
           /\ rateLimitStore' = IF cleanup THEN CleanupRateLimitStore(stored) ELSE stored
           /\ admitLog' = [admitLog EXCEPT ![identifier] = Append(@, now)]
           /\ UNCHANGED rejected

\* checkRateLimit(identifier, env); cleanup is the outcome of
\* Math.random() < 0.01. Throwing leaves the store as it was.
CheckRateLimit(identifier, cleanup) ==
  LET userRequests == IF identifier \in DOMAIN rateLimitStore
                      THEN rateLimitStore[identifier] ELSE <<>>
      validRequests == ValidRequests(userRequests)
      stored == MapSet(rateLimitStore, identifier, Append(validRequests, now))
  IN  IF AtCap(validRequests)
      THEN /\ rateOutcome' = [identifier |-> identifier, outcome |-> "rejected"]
           /\ rejected' = rejected \cup {identifier}
           /\ UNCHANGED <<rateLimitStore, admitLog>>
      ELSE /\ rateOutcome' = [identifier |-> identifier, outcome |-> "admitted"]
           /\ rateLimitStore' = IF cleanup THEN CleanupRateLimitStore(stored) ELSE stored
           /\ admitLog' = [admitLog EXCEPT ![identifier] = Append(@, now)]
           /\ UNCHANGED rejected

(***************************************************************************)
(* validatePolicyUrl (utils/validation.js) on the candidate urls           *)
(***************************************************************************)
\* Candidate urls a request can carry besides the public ones.
InvalidUrls == {"ftp://a.example/privacy", "http://localhost/privacy"}

\* new URL(url): protocol and hostname.
ParsedUrl(url) ==
  CASE url = "https://a.example/privacy" ->
           [protocol |-> "https:", hostname |-> "a.example",
            href |-> "https://a.example/privacy"]
    [] url = "HTTPS://A.EXAMPLE/privacy" ->
           [protocol |-> "https:", hostname |-> "a.example",
            href |-> "https://a.example/privacy"]
    [] url = "https://b.example/privacy" ->
           [protocol |-> "https:", hostname |-> "b.example",
            href |-> "https://b.example/privacy"]
    [] url = "ftp://a.example/privacy" ->
           [protocol |-> "ftp:", hostname |-> "a.example",
            href |-> "ftp://a.example/privacy"]
    [] url = "http://localhost/privacy" ->
           [protocol |-> "http:", hostname |-> "localhost",
            href |-> "http://localhost/privacy"]

\* The hostnames among the candidates that match a privateIpPatterns entry.
PrivateHostnames == {"localhost"}

\* A validator that lets every url through.
ValidatePolicyUrlAcceptsAll(url) == TRUE

\* validatePolicyUrl(url) returns (TRUE) or throws (FALSE).
ValidatePolicyUrl(url) ==
  /\ url # EmptyUrl
  /\ ParsedUrl(url).protocol \in {"http:", "https:"}
  /\ ParsedUrl(url).hostname # ""
  /\ ParsedUrl(url).hostname \notin PrivateHostnames

(***************************************************************************)
(* validatePolicyUrl on urls spelled out piece by piece                    *)
(*                                                                         *)
(* A url string is modelled by its scheme, its host as the sequence of     *)
(* its labels and separators, and its path; new URL(url) lower-cases the   *)
(* scheme and the host and keeps the brackets of an IPv6 literal in        *)
(* hostname.                                                               *)
(***************************************************************************)
Dotted(a, b, c, d) == <<a, ".", b, ".", c, ".", d>>

Bracketed(first) == <<"[", first, ":", ":", "1", "]">>

HostSpellings ==
  { <<"a", ".", "example">>, <<"A", ".", "EXAMPLE">>, <<"localhost">>,
    Dotted("8", "8", "8", "8"), Dotted("127", "0", "0", "1"),
    Dotted("10", "1", "2", "3"), Dotted("100", "1", "2", "3"),
    Dotted("172", "16", "0", "1"), Dotted("172", "31", "0", "1"),
    Dotted("172", "32", "0", "1"), Dotted("192", "168", "1", "1"),
    Dotted("169", "254", "169", "254"),
    <<"[", ":", ":", "1", "]">>, Bracketed("fe80"), Bracketed("fc00") }

\* What a caller can pass as url: a string with the three pieces, the empty
\* string, or a value that is not a string.
UrlInputs ==
  [type : {"string"}, scheme : {"http", "https", "HTTPS", "ftp"},
   host : HostSpellings, path : {"/", "/privacy"}]
    \cup [type : {"empty string", "number", "undefined"}, scheme : {""},
          host : {<<>>}, path : {""}]

\* The lower-casing the URL parser applies to the scheme and the host.
LowerCase(piece) ==
  CASE piece = "HTTPS" -> "https"
    [] piece = "A" -> "a"
    [] piece = "EXAMPLE" -> "example"
    [] OTHER -> piece

\* new URL(url) (line 14): protocol (without its colon), hostname, pathname.
NewURL(input) ==
  [protocol |-> LowerCase(input.scheme),
   hostname |-> [i \in DOMAIN input.host |-> LowerCase(input.host[i])],
   pathname |-> input.path]

\* privateIpPatterns (lines 27-37): each pattern is the pieces it asks for
\* from the start of the hostname, and whether it is anchored at the end;
\* /^172\.(1[6-9]|2[0-9]|3[0-1])\./ is one pattern for each second label.
PrivateIpPatterns ==
  { [pieces |-> <<"localhost">>, whole |-> TRUE],
    [pieces |-> <<"127", ".">>, whole |-> FALSE],
    [pieces |-> <<"10", ".">>, whole |-> FALSE],
    [pieces |-> <<"192", ".", "168", ".">>, whole |-> FALSE],
    [pieces |-> <<"169", ".", "254", ".">>, whole |-> FALSE],
    [pieces |-> <<"[", ":", ":", "1", "]">>, whole |-> TRUE],
    [pieces |-> <<"fc00", ":">>, whole |-> FALSE],
    [pieces |-> <<"fe80", ":">>, whole |-> FALSE] }
    \cup { [pieces |-> <<"172", ".", second, ".">>, whole |-> FALSE] :
             second \in {"16", "17", "18", "19", "20", "21", "22", "23", "24", "25",
                         "26", "27", "28", "29", "30", "31"} }

\* pattern.test(hostname).
PatternTest(pattern, hostname) ==
  IF pattern.whole THEN hostname = pattern.pieces
  ELSE /\ Len(hostname) >= Len(pattern.pieces)
       /\ SubSeq(hostname, 1, Len(pattern.pieces)) = pattern.pieces

\* Line 39: privateIpPatterns.some(pattern => pattern.test(hostname)).
MatchesPrivateIpPattern(hostname) ==
  \E pattern \in PrivateIpPatterns : PatternTest(pattern, hostname)

\* validatePolicyUrl(url), lines 8-51: every error thrown inside the try
\* has 'URL' in its message and is rethrown as 'Invalid URL format'.
ValidatePolicyUrlOutcome(input) ==
  IF input.type # "string"
  THEN [outcome |-> "thrown", error |-> "URL is required and must be a string",
        href |-> NoHref]
  ELSE IF \/ NewURL(input).protocol \notin {"http", "https"}
          \/ Len(NewURL(input).hostname) = 0
          \/ MatchesPrivateIpPattern(NewURL(input).hostname)
  THEN [outcome |-> "thrown", error |-> "Invalid URL format", href |-> NoHref]
  ELSE [outcome |-> "returned", error |-> "", href |-> NewURL(input)]

\* One call of validatePolicyUrl.
ValidateCall ==
  /\ \E input \in UrlInputs :
       validation' = [input |-> input] @@ ValidatePolicyUrlOutcome(input)
  /\ UNCHANGED <<serviceVars, run, chunking, gateway, merge, userSession>>

(***************************************************************************)
(* The worker's fetch (index.js), validateExtensionRequest                 *)
(* (utils/validation.js) and handleHealth (api/health.js)                  *)
(***************************************************************************)
\* An absent Origin header.
NoOrigin == [scheme |-> "", rest |-> ""]

\* The requests: the Origin header is absent, an extension's or a web
\* page's; the X-Extension-Version header is given as its runs of characters
\* between the dots, and the dots (<<>>: absent); large: Content-Length is
\* above 10 KB.
Requests ==
  [method : {"GET", "POST", "OPTIONS", "DELETE"},
   pathname : {"/api/health", "/api/analyze", "/api/detect", "/api/results",
               "/api/admin"},
   contentType : {"", "application/json; charset=utf-8", "text/plain"},
   large : BOOLEAN,
   origin : {NoOrigin} \cup [scheme : {"chrome-extension://", "https://"},
                             rest : {"abcdef"}],
   version : { <<>>, <<"1", ".", "0", ".", "0">>, <<"12", ".", "3", ".", "4">>,
               <<"1", ".", "0">>, <<"v1", ".", "0", ".", "0">> }]

\* The runs among those of the versions that \d+ matches.
DigitRuns == {"0", "1", "3", "4", "12"}

\* /^\d+\.\d+\.\d+$/.test(extensionVersion) (lines 185-186).
VersionPatternTest(version) ==
  /\ Len(version) = 5
  /\ \A i \in {1, 3, 5} : version[i] \in DigitRuns
  /\ \A i \in {2, 4} : version[i] = "."

\* validateExtensionRequest(request, env).valid, lines 162-191.
ValidateExtensionRequest(request) ==
  IF request.origin # NoOrigin /\ request.origin.scheme # "chrome-extension://" THEN FALSE
  ELSE IF request.version = <<>> THEN FALSE
  ELSE VersionPatternTest(request.version)

\* index.js lines 33-119: the response the worker gives by itself (a status)
\* or the handler it calls (status 0: the handler's).
Route(request) ==
  IF request.method = "OPTIONS" THEN [status |-> 200, handler |-> "none"]
  ELSE IF request.method \notin {"GET", "POST"} THEN [status |-> 405, handler |-> "none"]
  ELSE IF request.pathname = "/api/health" THEN [status |-> 0, handler |-> "health"]
  ELSE IF /\ request.method = "POST"
          /\ request.contentType # "application/json; charset=utf-8"
  THEN [status |-> 400, handler |-> "none"]
  ELSE IF request.method = "POST" /\ request.large
  THEN [status |-> 413, handler |-> "none"]
  ELSE IF ~ValidateExtensionRequest(request) THEN [status |-> 403, handler |-> "none"]
  ELSE CASE request.pathname = "/api/analyze" -> [status |-> 0, handler |-> "analyze"]
         [] request.pathname = "/api/detect" -> [status |-> 0, handler |-> "detect"]
         [] request.pathname = "/api/results" -> [status |-> 0, handler |-> "results"]
         [] OTHER -> [status |-> 404, handler |-> "none"]

\* handleHealth lines 8-67: health.status after the checks, given the
\* bindings and what the cache's stats call does.  Without the
\* POLICY_CACHE binding line 53 throws into the catch of line 65.
HealthStatus(env, stats) ==
  IF /\ env.AI
     /\ env.POLICY_CACHE /\ env.USER_SESSIONS
     /\ stats # "throws"
  THEN "healthy" ELSE "degraded"

\* A status code of 200 whatever the status.
HealthStatusCodeAlways200(status) == 200

\* Line 70: health.status === 'healthy' ? 200 : 503.
HealthStatusCode(status) == IF status = "healthy" THEN 200 ELSE 503

\* index.js line 15: a request arrives at the worker.
FetchArrives ==
  /\ gateway.pc = "idle"
  /\ \E request \in Requests :
       gateway' = [NoGateway EXCEPT !.pc = "routing", !.request = request]
  /\ UNCHANGED <<serviceVars, run, chunking, validation, merge, userSession>>

\* index.js lines 16-119 and, for /api/health, handleHealth: the worker
\* answers or hands the request to a handler.
FetchRoutes ==
  /\ gateway.pc = "routing"
  /\ LET routed == Route(gateway.request)
     IN  IF routed.handler = "health"
         THEN \E env \in [AI : BOOLEAN, POLICY_CACHE : BOOLEAN, USER_SESSIONS : BOOLEAN],
                 stats \in {"ok", "not ok", "throws"} :
                /\ (~env.POLICY_CACHE => stats = "throws")
                /\ gateway' = [gateway EXCEPT
                       !.pc = "responded", !.handler = "health",
                       !.health = HealthStatus(env, stats),
                       !.status = HealthStatusCode(HealthStatus(env, stats))]
         ELSE gateway' = [gateway EXCEPT !.pc = "responded",
                                         !.handler = routed.handler,
                                         !.status = routed.status]
  /\ UNCHANGED <<serviceVars, run, chunking, validation, merge, userSession>>

\* The response has been returned to the client; the worker takes the next
\* request.
FetchReturns ==
  /\ gateway.pc = "responded"
  /\ gateway' = NoGateway
  /\ UNCHANGED <<serviceVars, run, chunking, validation, merge, userSession>>

(***************************************************************************)
(* handleAnalyze (api/analyze.js)                                          *)
(***************************************************************************)
Reqs == {"req1"}

\* The url a request body can carry: a public one, rejected ones, or none.
AnalyzeUrls == {"https://a.example/privacy"} \cup InvalidUrls \cup {EmptyUrl}

\* request.headers.get('CF-Connecting-IP') || 'unknown'
AnalyzeClients == {"203.0.113.7"}

\* env.ANALYSIS_CACHE_TTL_MINUTES || 30
AnalysisCacheTtlMinutes == MaxTtlMinutes

\* The analysis results analyzePolicy can return: Results as they read in
\* JSON, and one whose executiveSummary is undefined (the summary call
\* returned JSON without that field).
ResultWithUndefined == "analysisB, executiveSummary: undefined"

AnalyzerResults == Results \cup {ResultWithUndefined}

\* JSON.parse(JSON.stringify(value)): a property whose value is undefined
\* is left out.
JsonValue(value) == IF value = ResultWithUndefined THEN "analysisB" ELSE value

\* No preceding request that was answered with a fresh analysis.
NoPrev == [url |-> EmptyUrl, payload |-> NoResult, until |-> 0]

\* A request: its position, its inputs, the calls issued so far, the
\* response (status, cached, payload: the result as the client reads it),
\* and what is known of the request answered before it on the same
\* connection (prev) and of the moment of its own lookup (inTtl, hitResult).
IdleRequest ==
  [pc |-> "idle", url |-> EmptyUrl, ip |-> "", calls |-> <<>>, status |-> 0,
   cached |-> FALSE, result |-> NoResult, hitResult |-> NoResult,
   payload |-> NoResult, until |-> 0, prev |-> NoPrev, inTtl |-> FALSE]

\* A handler that looks the url up in the cache before it validates it.
CallsAfterAdmissionHoisted(admitted) == <<"cacheCheck">>

\* Lines 77-85 are reached only when neither early return was taken.
CallsAfterAdmission(admitted) == IF admitted THEN <<"cacheCheck">> ELSE <<>>

\* A handler that never recognises the cache's answer as a hit.
CacheHitNever(cacheResponse) == FALSE

\* cacheResponse.status === 200
CacheHit(cacheResponse) == cacheResponse.status = 200

\* body: JSON.stringify({ url }) of the lookup (line 84).
LookupKey(url) == url

\* body: JSON.stringify({ url, result, ttlMinutes }) of the store (line 110).
StoreKey(url) == url

\* Lines 23-85: parse the body, validate the url, admit the client, and
\* issue the cache lookup; the url is one of urls.
AnalyzeBeginWith(r, urls) ==
  /\ req[r].pc \in {"idle", "done"}
  /\ \E url \in urls, ip \in AnalyzeClients, cleanup \in BOOLEAN :
       LET fresh == req[r].pc = "done" /\ req[r].status = 200 /\ ~req[r].cached
           new == [IdleRequest EXCEPT
                     !.url = url, !.ip = ip,
                     !.prev = IF fresh
                              THEN [url |-> req[r].url, payload |-> req[r].payload,
                                    until |-> req[r].until]
                              ELSE NoPrev]
       IN  IF url = EmptyUrl \/ ~ValidatePolicyUrl(url)
           THEN /\ req' = [req EXCEPT ![r] =
                             [new EXCEPT !.pc = "done", !.status = 400,
                                         !.calls = CallsAfterAdmission(FALSE)]]
                /\ rateOutcome' = NoOutcome
                /\ UNCHANGED <<rateLimitStore, admitLog, rejected>>
           ELSE /\ CheckRateLimit(ip, cleanup)
                /\ req' = [req EXCEPT ![r] =
                             IF rateOutcome'.outcome = "rejected"
                             THEN [new EXCEPT !.pc = "done", !.status = 429,
                                              !.calls = CallsAfterAdmission(FALSE)]
                             ELSE [new EXCEPT !.pc = "checking",
                                              !.calls = CallsAfterAdmission(TRUE)]]
  /\ response' = NoResponse
  /\ UNCHANGED <<now, cache, initialized, storage, storageSet, alarm, sinceStore>>
  /\ resultsResponse' = NoResultsResponse
  /\ UNCHANGED storeCalls
  /\ UNCHANGED <<analysis, riskScores>>
  /\ UNCHANGED <<run, chunking, validation, gateway, merge, userSession>>

AnalyzeBegin(r) == AnalyzeBeginWith(r, AnalyzeUrls)

\* handleStore when storage.put (line 75) rejects: the map already holds the
\* entry (line 72), nothing is persisted, no alarm is set, and the catch
\* block answers 500.
HandleStorePutFails(url, result, ttlMinutes) ==
  LET c0 == Initialize
      entry == CacheEntry(result, ttlMinutes)
      c1 == MapSet(c0, url, entry)
  IN  /\ initialized' = TRUE
      /\ IF url = EmptyUrl \/ result = NoResult
         THEN /\ cache' = c0
              /\ response' = Resp("store", url, 400, NoBody)
         ELSE /\ cache' = c1
              /\ response' = Resp("store", url, 500, NoBody)
      /\ UNCHANGED <<storage, storageSet, alarm, sinceStore>>

\* cacheStub.fetch(.../store) rejects (the partition cannot be reached, or
\* storage.get in initialize, outside every try block, rejects): the
\* partition is left as it was.
StoreCallThrows ==
  /\ response' = NoResponse
  /\ UNCHANGED <<cache, initialized, storage, storageSet, alarm, sinceStore>>

\* The ways the /store call of handleAnalyze can fail.
StoreFaults == {"put rejects", "call throws"}

\* Lines 105-136 when the /store call fails: an error response is not looked
\* at (the response of line 106 is dropped) and the fresh result is returned;
\* a rejected call is caught by the handler's catch block (line 125), which
\* answers 500.
AnalyzeStoreFails(r) ==
  /\ req[r].pc = "storing"
  /\ \E fault \in StoreFaults :
       IF fault = "put rejects"
       THEN /\ HandleStorePutFails(StoreKey(req[r].url), JsonValue(req[r].result),
                                   AnalysisCacheTtlMinutes)
            /\ req' = [req EXCEPT ![r] =
                         [@ EXCEPT !.pc = "done", !.status = 200, !.cached = FALSE,
                                   !.payload = JsonValue(req[r].result),
                                   !.calls = @ \o <<"cacheStore">>]]
       ELSE /\ StoreCallThrows
            /\ req' = [req EXCEPT ![r] =
                         [@ EXCEPT !.pc = "done", !.status = 500,
                                   !.calls = @ \o <<"cacheStore">>]]
  /\ rateOutcome' = NoOutcome
  /\ UNCHANGED <<now, rateLimitStore, admitLog, rejected>>
  /\ resultsResponse' = NoResultsResponse
  /\ UNCHANGED storeCalls
  /\ UNCHANGED <<analysis, riskScores>>
  /\ UNCHANGED <<run, chunking, validation, gateway, merge, userSession>>

\* Two invocations of handleAnalyze that can overlap, for one url.
RaceReqs == Reqs \cup {"req2"}

RaceUrls == {"https://a.example/privacy"}

AnalyzeBeginRace(r) == AnalyzeBeginWith(r, RaceUrls)

\* Two spellings of one address: new URL(url).href is the same for both.
SpellingUrls == {"https://a.example/privacy", "HTTPS://A.EXAMPLE/privacy"}

\* validatePolicyUrl's return value (line 46), which handleAnalyze does not
\* keep (line 52).
NormalizedUrl(url) == ParsedUrl(url).href

\* handleAnalyze for a request whose url is one of the two spellings.
AnalyzeBeginSpelled(r) == AnalyzeBeginWith(r, SpellingUrls)

\* Lines 81-97: the cache partition answers the lookup; a hit is returned.
AnalyzeCacheCheck(r) ==
  /\ req[r].pc = "checking"
  /\ HandleCheck(LookupKey(req[r].url))
  /\ LET \* the result of the live entry the partition holds for the url
         live == IF /\ req[r].url \in DOMAIN storage
                    /\ storage[req[r].url].expiresAt > now
                 THEN storage[req[r].url].result ELSE NoResult
         inTtl == req[r].prev # NoPrev /\ now < req[r].prev.until
     IN  req' = [req EXCEPT ![r] =
                  IF CacheHit(response')
                  THEN [@ EXCEPT !.pc = "done", !.status = 200, !.cached = TRUE,
                                 !.result = response'.body.result,
                                 !.payload = JsonValue(response'.body.result),
                                 !.hitResult = live, !.inTtl = inTtl]
                  ELSE [@ EXCEPT !.pc = "analyzing", !.hitResult = live,
                                 !.inTtl = inTtl]]
  /\ rateOutcome' = NoOutcome
  /\ UNCHANGED <<now, rateLimitStore, admitLog, rejected>>
  /\ resultsResponse' = NoResultsResponse
  /\ UNCHANGED storeCalls
  /\ UNCHANGED <<analysis, riskScores>>
  /\ UNCHANGED <<run, chunking, validation, gateway, merge, userSession>>

\* Lines 99-103: analyzer.analyzePolicy fetches the document, chunks it,
\* calls the model and scores the findings, or throws when the fetch fails.
AnalyzePolicy(r) ==
  /\ req[r].pc = "analyzing"
  /\ \E ok \in BOOLEAN, result \in AnalyzerResults :
       req' = [req EXCEPT ![r] =
                IF ok
                THEN [@ EXCEPT !.pc = "storing", !.result = result,
                               !.calls = @ \o <<"fetch", "chunk", "inference", "score">>]
                ELSE [@ EXCEPT !.pc = "done", !.status = 500,
                               !.calls = @ \o <<"fetch">>]]
  /\ response' = NoResponse
  /\ rateOutcome' = NoOutcome
  /\ UNCHANGED <<now, cache, initialized, storage, storageSet, alarm, sinceStore,
                 rateLimitStore, admitLog, rejected>>
  /\ resultsResponse' = NoResultsResponse
  /\ UNCHANGED storeCalls
  /\ UNCHANGED <<analysis, riskScores>>
  /\ UNCHANGED <<run, chunking, validation, gateway, merge, userSession>>

\* Lines 105-123: the result is stored and returned.
AnalyzeStore(r) ==
  /\ req[r].pc = "storing"
  /\ HandleStore(StoreKey(req[r].url), JsonValue(req[r].result), AnalysisCacheTtlMinutes)
  /\ req' = [req EXCEPT ![r] =
               [@ EXCEPT !.pc = "done", !.status = 200, !.cached = FALSE,
                         !.payload = JsonValue(req[r].result),
                         !.until = now + AnalysisCacheTtlMinutes * MsPerMinute,
                         !.calls = @ \o <<"cacheStore">>]]
  /\ rateOutcome' = NoOutcome
  /\ UNCHANGED <<now, rateLimitStore, admitLog, rejected>>
  /\ resultsResponse' = NoResultsResponse
  /\ UNCHANGED storeCalls
  /\ UNCHANGED <<analysis, riskScores>>
  /\ UNCHANGED <<run, chunking, validation, gateway, merge, userSession>>

(***************************************************************************)
(* GET /api/results (api/results.js handleResults, PolicyCache.handleGet)  *)
(***************************************************************************)
\* The id and url query parameters a request can carry ("" when absent).
ResultIds == {"", "result-1"}

ResultUrls == Urls \cup {EmptyUrl}

\* request.url of GET /api/results: the path segments, and whether a query
\* string follows them.
ResultsRequestUrl(id, url) ==
  [pathname |-> <<"api", "results">>, hasQuery |-> (id # "" \/ url # EmptyUrl)]

\* A text appended where the path ends.
WithSuffixOnPath(requestUrl, segment) ==
  [requestUrl EXCEPT !.pathname = Append(@, segment)]

\* `${request.url}/get` (line 36): the text is appended to the whole url, so
\* it lands in the query string when there is one, and on the path otherwise.
WithSuffix(requestUrl, segment) ==
  IF requestUrl.hasQuery
  THEN requestUrl
  ELSE [requestUrl EXCEPT !.pathname = Append(@, segment)]

\* url.pathname.endsWith('/' + segment) in PolicyCache.fetch.
PathEndsWith(requestUrl, segment) ==
  /\ Len(requestUrl.pathname) > 0
  /\ requestUrl.pathname[Len(requestUrl.pathname)] = segment

\* handleGet: the key is the url whether or not an id is given.
HandleGet(id, url) ==
  LET c0 == Initialize
      cacheKey == url
  IN  /\ initialized' = TRUE
      /\ cache' = c0
      /\ response' =
           IF cacheKey = EmptyUrl THEN Resp("get", url, 400, NoBody)
           ELSE IF cacheKey \in DOMAIN c0 /\ IsLive(c0[cacheKey])
                THEN Resp("get", url, 200,
                          [result |-> c0[cacheKey].result,
                           timestamp |-> c0[cacheKey].timestamp,
                           expiresAt |-> c0[cacheKey].expiresAt])
                ELSE Resp("get", url, 404, NoBody)
      /\ UNCHANGED <<storage, storageSet, alarm, sinceStore>>

\* PolicyCache.fetch for a POST whose path matches no route (line 50).
MethodNotAllowed(url) ==
  /\ initialized' = TRUE
  /\ cache' = Initialize
  /\ response' = Resp("fetch", url, 405, NoBody)
  /\ UNCHANGED <<storage, storageSet, alarm, sinceStore>>

\* PolicyCache.fetch for a POST with body {id, url} (lines 25-51).
FetchGet(requestUrl, id, url) ==
  IF PathEndsWith(requestUrl, "get")
  THEN HandleGet(id, url)
  ELSE MethodNotAllowed(url)

\* handleResults, lines 45-74: the status returned for the cache's response.
ResultsStatus(cacheResponse) ==
  IF cacheResponse.status = 404 THEN 404
  ELSE IF cacheResponse.status # 200 THEN 500
  ELSE 200

\* handleResults for GET /api/results?id=..&url=..
HandleResults(id, url) ==
  IF id = "" /\ url = EmptyUrl
  THEN /\ resultsResponse' = [id |-> id, url |-> url, status |-> 400, body |-> NoBody]
       /\ response' = NoResponse
       /\ UNCHANGED <<cache, initialized, storage, storageSet, alarm, sinceStore>>
  ELSE /\ FetchGet(WithSuffix(ResultsRequestUrl(id, url), "get"), id, url)
       /\ resultsResponse' =
            [id |-> id, url |-> url, status |-> ResultsStatus(response'),
             body |-> IF ResultsStatus(response') = 200 THEN response'.body ELSE NoBody]

(***************************************************************************)
(* Concurrent /store calls on one durable object                           *)
(*                                                                         *)
(* fetch() suspends at two places: in initialize(), at storage.get (line   *)
(* 17), and in handleStore, at request.json() (line 55). While a storage   *)
(* operation is pending the durable object's input gate is closed: no      *)
(* event other than the completion of that operation is delivered. From    *)
(* line 57 to the response handleStore only awaits storage operations, so  *)
(* it runs as one step.                                                    *)
(***************************************************************************)
StoreCallIds == {"call1", "call2"}

\* A call: its position, its body, the value storage.get returned to its
\* initialize(), and whether it arrived while another call's storage.get was
\* pending.
IdleCall == [pc |-> "idle", url |-> EmptyUrl, result |-> NoResult,
             stored |-> EmptyMap, storedSet |-> FALSE, duringRead |-> FALSE]

\* Line 17: a storage read is pending in some call, which keeps the input
\* gate closed.
InputGateClosed == \E c \in StoreCallIds : storeCalls[c].pc = "reading"

\* The map handleStore adds its entry to: a copy a call kept from its own
\* storage read.
StoreTargetOwnCopy(c) == IF storeCalls[c].storedSet THEN storeCalls[c].stored ELSE cache

\* Line 72: the map handleStore adds its entry to is this.cache as it is when
\* the body has been read.
StoreTarget(c) == cache

\* A caller sends POST /store; the request waits for delivery. Calls that
\* were answered before this one arrived are forgotten.
StoreArrives(c) ==
  /\ storeCalls[c].pc \in {"idle", "done"}
  /\ \E u \in Urls, r \in Results :
       storeCalls' = [d \in StoreCallIds |->
                        IF d = c
                        THEN [IdleCall EXCEPT !.pc = "arrived", !.url = u, !.result = r,
                                              !.duringRead = InputGateClosed]
                        ELSE IF storeCalls[d].pc = "done" THEN IdleCall
                        ELSE storeCalls[d]]
  /\ response' = NoResponse
  /\ rateOutcome' = NoOutcome
  /\ resultsResponse' = NoResultsResponse
  /\ UNCHANGED <<now, cache, initialized, storage, storageSet, alarm, sinceStore,
                 rateLimitStore, admitLog, rejected, req>>
  /\ UNCHANGED <<analysis, riskScores>>
  /\ UNCHANGED <<run, chunking, validation, gateway, merge, userSession>>

\* Lines 25-26, 13-17: the request is delivered; initialize() returns at once
\* when the object is initialized, and issues storage.get otherwise.
StoreDelivered(c) ==
  /\ storeCalls[c].pc = "arrived"
  /\ ~InputGateClosed
  /\ storeCalls' = [storeCalls EXCEPT ![c] =
                      IF initialized
                      THEN [@ EXCEPT !.pc = "parsing"]
                      ELSE [@ EXCEPT !.pc = "reading", !.stored = storage,
                                     !.storedSet = storageSet]]
  /\ response' = NoResponse
  /\ rateOutcome' = NoOutcome
  /\ resultsResponse' = NoResultsResponse
  /\ UNCHANGED <<now, cache, initialized, storage, storageSet, alarm, sinceStore,
                 rateLimitStore, admitLog, rejected, req>>
  /\ UNCHANGED <<analysis, riskScores>>
  /\ UNCHANGED <<run, chunking, validation, gateway, merge, userSession>>

\* Lines 17-22, 55: storage.get has returned; the map is replaced by what was
\* read, the object is initialized, and handleStore starts reading the body.
StoreInitialized(c) ==
  /\ storeCalls[c].pc = "reading"
  /\ cache' = IF storeCalls[c].storedSet THEN storeCalls[c].stored ELSE cache
  /\ initialized' = TRUE
  /\ storeCalls' = [storeCalls EXCEPT ![c] = [@ EXCEPT !.pc = "parsing"]]
  /\ response' = NoResponse
  /\ rateOutcome' = NoOutcome
  /\ resultsResponse' = NoResultsResponse
  /\ UNCHANGED <<now, storage, storageSet, alarm, sinceStore,
                 rateLimitStore, admitLog, rejected, req>>
  /\ UNCHANGED <<analysis, riskScores>>
  /\ UNCHANGED <<run, chunking, validation, gateway, merge, userSession>>

\* Lines 55-82: the body has been read; the entry is put into the map, the
\* map is persisted, the alarm is set and the call is answered.
StoreCompletes(c) ==
  /\ storeCalls[c].pc = "parsing"
  /\ ~InputGateClosed
  /\ LET entry == CacheEntry(storeCalls[c].result, AnalysisCacheTtlMinutes)
         c1 == MapSet(StoreTarget(c), storeCalls[c].url, entry)
     IN  /\ cache' = c1
         /\ storage' = c1
         /\ storageSet' = TRUE
         /\ alarm' = {StoreAlarm(entry, c1)}
         /\ response' = Resp("store", storeCalls[c].url, 200, NoBody)
         /\ sinceStore' = [url |-> storeCalls[c].url, result |-> storeCalls[c].result,
                           timestamp |-> entry.timestamp,
                           expiresAt |-> entry.expiresAt]
  /\ storeCalls' = [storeCalls EXCEPT ![c] = [@ EXCEPT !.pc = "done"]]
  /\ rateOutcome' = NoOutcome
  /\ resultsResponse' = NoResultsResponse
  /\ UNCHANGED <<now, initialized, rateLimitStore, admitLog, rejected, req>>
  /\ UNCHANGED <<analysis, riskScores>>
  /\ UNCHANGED <<run, chunking, validation, gateway, merge, userSession>>

(***************************************************************************)
(* Actions                                                                 *)
(***************************************************************************)
\* POST .../store, .../check, .../cleanup routed by PolicyCache.fetch.
Store ==
  /\ \E u \in Urls \cup {EmptyUrl}, r \in Results \cup {NoResult}, ttl \in TtlChoices :
       \* entries that would outlive the modelled clock are left out
       /\ now + ttl * MsPerMinute <= LastInstant
       /\ HandleStore(u, r, ttl)
  /\ rateOutcome' = NoOutcome
  /\ UNCHANGED <<now, rateLimitStore, admitLog, rejected, req>>
  /\ resultsResponse' = NoResultsResponse
  /\ UNCHANGED storeCalls
  /\ UNCHANGED <<analysis, riskScores>>
  /\ UNCHANGED <<run, chunking, validation, gateway, merge, userSession>>

\* The ttlMinutes values a /store body can carry when nothing restricts them
\* (handleStore line 55 only replaces an absent one; handleAnalyze line 112
\* only replaces a falsy ANALYSIS_CACHE_TTL_MINUTES, and "0" or -1 are not).
AnyTtlChoices == (0 - 1)..MaxTtlMinutes

\* POST /store with any of those ttlMinutes values.
StoreAnyTtl ==
  /\ \E u \in Urls, r \in Results, ttl \in AnyTtlChoices :
       /\ now + ttl * MsPerMinute <= LastInstant
       /\ HandleStore(u, r, ttl)
  /\ rateOutcome' = NoOutcome
  /\ UNCHANGED <<now, rateLimitStore, admitLog, rejected, req>>
  /\ resultsResponse' = NoResultsResponse
  /\ UNCHANGED storeCalls
  /\ UNCHANGED <<analysis, riskScores>>
  /\ UNCHANGED <<run, chunking, validation, gateway, merge, userSession>>

Check ==
  /\ \E u \in Urls \cup {EmptyUrl} : HandleCheck(u)
  /\ rateOutcome' = NoOutcome
  /\ UNCHANGED <<now, rateLimitStore, admitLog, rejected, req>>
  /\ resultsResponse' = NoResultsResponse
  /\ UNCHANGED storeCalls
  /\ UNCHANGED <<analysis, riskScores>>
  /\ UNCHANGED <<run, chunking, validation, gateway, merge, userSession>>

Cleanup ==
  /\ \E ttl \in MaxAgeChoices : HandleCleanup(ttl)
  /\ rateOutcome' = NoOutcome
  /\ UNCHANGED <<now, rateLimitStore, admitLog, rejected, req>>
  /\ resultsResponse' = NoResultsResponse
  /\ UNCHANGED storeCalls
  /\ UNCHANGED <<analysis, riskScores>>
  /\ UNCHANGED <<run, chunking, validation, gateway, merge, userSession>>

AlarmFires ==
  /\ Alarm
  /\ rateOutcome' = NoOutcome
  /\ UNCHANGED <<now, rateLimitStore, admitLog, rejected, req>>
  /\ resultsResponse' = NoResultsResponse
  /\ UNCHANGED storeCalls
  /\ UNCHANGED <<analysis, riskScores>>
  /\ UNCHANGED <<run, chunking, validation, gateway, merge, userSession>>

Evict ==
  /\ \A c \in StoreCallIds : storeCalls[c].pc \in {"idle", "done"}
  /\ Restart
  /\ rateOutcome' = NoOutcome
  /\ UNCHANGED <<now, rateLimitStore, admitLog, rejected, req>>
  /\ resultsResponse' = NoResultsResponse
  /\ UNCHANGED storeCalls
  /\ UNCHANGED <<analysis, riskScores>>
  /\ UNCHANGED <<run, chunking, validation, gateway, merge, userSession>>

\* POST .../get sent to the durable object.
Get ==
  /\ \E id \in ResultIds, u \in ResultUrls :
       FetchGet(WithSuffixOnPath(ResultsRequestUrl("", EmptyUrl), "get"), id, u)
  /\ rateOutcome' = NoOutcome
  /\ resultsResponse' = NoResultsResponse
  /\ UNCHANGED <<now, rateLimitStore, admitLog, rejected, req, storeCalls>>
  /\ UNCHANGED <<analysis, riskScores>>
  /\ UNCHANGED <<run, chunking, validation, gateway, merge, userSession>>

\* GET /api/results routed to handleResults.
GetResults ==
  /\ \E id \in ResultIds, u \in ResultUrls : HandleResults(id, u)
  /\ rateOutcome' = NoOutcome
  /\ UNCHANGED <<now, rateLimitStore, admitLog, rejected, req, storeCalls>>
  /\ UNCHANGED <<analysis, riskScores>>
  /\ UNCHANGED <<run, chunking, validation, gateway, merge, userSession>>

\* analyzePolicy line 115: performAIAnalysis returns an aggregated analysis
\* (the one before it, if any, has been scored).
PerformAIAnalysis ==
  /\ analysis = NoAnalysis \/ riskScores # NoScores
  /\ analysis' \in Analyses
  /\ riskScores' = NoScores
  /\ UNCHANGED <<now, cache, initialized, storage, storageSet, alarm, response,
                 sinceStore, rateLimitStore, rateOutcome, admitLog, rejected, req,
                 storeCalls, resultsResponse>>
  /\ UNCHANGED <<run, chunking, validation, gateway, merge, userSession>>

\* analyzePolicy line 118: the analysis is scored.
ScoreAnalysis ==
  /\ analysis # NoAnalysis
  /\ riskScores = NoScores
  /\ riskScores' = CalculateRiskScores(analysis)
  /\ UNCHANGED <<now, cache, initialized, storage, storageSet, alarm, response,
                 sinceStore, rateLimitStore, rateOutcome, admitLog, rejected, req,
                 storeCalls, resultsResponse, analysis>>
  /\ UNCHANGED <<run, chunking, validation, gateway, merge, userSession>>

\* Lines 402-411 on their own, for any three ratings.
CombineRisks ==
  /\ \E regulatory \in Ratings, transparency \in Ratings, userRights \in Ratings :
       riskScores' = [overall |-> OverallRisk(<<regulatory, transparency, userRights>>),
                      regulatory |-> regulatory,
                      transparency |-> transparency,
                      userRights |-> userRights]
  /\ analysis' = NoAnalysis
  /\ UNCHANGED <<now, cache, initialized, storage, storageSet, alarm, response,
                 sinceStore, rateLimitStore, rateOutcome, admitLog, rejected, req,
                 storeCalls, resultsResponse>>
  /\ UNCHANGED <<run, chunking, validation, gateway, merge, userSession>>

\* A caller runs checkRateLimit.
RateLimitCall ==
  /\ \E id \in Identifiers, cleanup \in BOOLEAN : CheckRateLimit(id, cleanup)
  /\ response' = NoResponse
  /\ UNCHANGED <<now, cache, initialized, storage, storageSet, alarm, sinceStore, req>>
  /\ resultsResponse' = NoResultsResponse
  /\ UNCHANGED storeCalls
  /\ UNCHANGED <<analysis, riskScores>>
  /\ UNCHANGED <<run, chunking, validation, gateway, merge, userSession>>

\* Time passes.
Tick ==
  /\ \E t \in Instants : t > now /\ now' = t
  /\ response' = NoResponse
  /\ rateOutcome' = NoOutcome
  /\ admitLog' = [id \in Identifiers |->
                    SelectSeq(admitLog[id], LAMBDA time : time + WindowMs > now')]
  /\ UNCHANGED <<cache, initialized, storage, storageSet, alarm, sinceStore,
                 rateLimitStore, rejected, req>>
  /\ resultsResponse' = NoResultsResponse
  /\ UNCHANGED storeCalls
  /\ UNCHANGED <<analysis, riskScores>>
  /\ UNCHANGED <<run, chunking, validation, gateway, merge, userSession>>

Init ==
  /\ now = 0
  /\ cache = Constructed.cache
  /\ initialized = Constructed.initialized
  /\ storage = EmptyMap
  /\ storageSet = FALSE
  /\ alarm = {}
  /\ response = NoResponse
  /\ sinceStore = NoStore
  /\ rateLimitStore = EmptyMap
  /\ rateOutcome = NoOutcome
  /\ admitLog = [id \in Identifiers |-> <<>>]
  /\ rejected = {}
  /\ req = [r \in RaceReqs |-> IdleRequest]
  /\ storeCalls = [c \in StoreCallIds |-> IdleCall]
  /\ resultsResponse = NoResultsResponse
  /\ analysis = NoAnalysis
  /\ riskScores = NoScores
  /\ run = NoRun
  /\ chunking = NoChunking
  /\ validation = NoValidation
  /\ gateway = NoGateway
  /\ merge = NoMerge
  /\ userSession = NoUserSession

\* The cache partition on its own.
Next == Store \/ Check \/ Cleanup \/ AlarmFires \/ Evict \/ Tick

Spec == Init /\ [][Next]_vars

\* Time advances and a pending alarm whose time has come is delivered.
LiveSpec == Init /\ [][Next]_vars /\ WF_vars(Tick) /\ WF_vars(AlarmFires)

\* The cache partition when the ttl of a store is not restricted.
TtlNext == StoreAnyTtl \/ Check \/ AlarmFires \/ Evict \/ Tick

TtlSpec == Init /\ [][TtlNext]_vars

\* The results endpoint over the cache partition.
ResultsNext == Store \/ Get \/ GetResults \/ AlarmFires \/ Evict \/ Tick

ResultsSpec == Init /\ [][ResultsNext]_vars

\* The risk scorer on its own.
ScoreNext == PerformAIAnalysis \/ ScoreAnalysis \/ CombineRisks

ScoreSpec == Init /\ [][ScoreNext]_vars

\* One analyzer running performAIAnalysis and calculateRiskScores.
PipelineNext ==
  RunStarts \/ ChunkCallStarts \/ ChunkCallReturns \/ SummaryCallStarts
    \/ SummaryCallReturns

PipelineSpec == Init /\ [][PipelineNext]_vars

\* The merge and the cut of the lists of one analysis after another.
MergeNext == MergeStarts \/ MergeChunk \/ MergeReturns

MergeSpec == Init /\ [][MergeNext]_vars

\* The requests to one UserSession object over RequestDays days.
SessionNext ==
  \/ HandleCreateSession \/ HandleGetHistory \/ HandleUpdateSession(MaxAnalyses)
  \/ HandleClearHistory \/ SessionDayPasses(RequestDays) \/ SessionEvict

SessionSpec == Init /\ [][SessionNext]_vars

\* The same object over MaxDays days, with updates that carry no analysis;
\* time advances.
SessionLiveNext ==
  \/ HandleCreateSession \/ HandleGetHistory \/ HandleUpdateSession(0)
  \/ HandleClearHistory \/ SessionDayPasses(MaxDays) \/ SessionEvict

SessionLiveSpec ==
  Init /\ [][SessionLiveNext]_vars /\ WF_vars(SessionDayPasses(MaxDays))

\* The worker's routing of one request after another.
GatewayNext == FetchArrives \/ FetchRoutes \/ FetchReturns

GatewaySpec == Init /\ [][GatewayNext]_vars

\* The url validator on its own.
ValidatorNext == ValidateCall

ValidatorSpec == Init /\ [][ValidatorNext]_vars

\* The chunker on its own.
ChunkNext == ChunkContentCall

ChunkSpec == Init /\ [][ChunkNext]_vars

\* The rate limiter on its own.
RateNext == RateLimitCall \/ Tick

RateSpec == Init /\ [][RateNext]_vars

\* The worker serving /api/analyze in front of the cache partition.
Analyze == \E r \in Reqs :
  AnalyzeBegin(r) \/ AnalyzeCacheCheck(r) \/ AnalyzePolicy(r) \/ AnalyzeStore(r)

AnalyzeNext == Analyze \/ AlarmFires \/ Evict \/ Tick

AnalyzeSpec == Init /\ [][AnalyzeNext]_vars

\* Concurrent /store calls on one durable object that is evicted when idle.
StoreCall == \E c \in StoreCallIds :
  StoreArrives(c) \/ StoreDelivered(c) \/ StoreInitialized(c) \/ StoreCompletes(c)

ConcurrentNext == StoreCall \/ Evict

ConcurrentSpec == Init /\ [][ConcurrentNext]_vars

\* handleAnalyze when the /store call can fail.
AnalyzeFaultNext ==
  Analyze \/ (\E r \in Reqs : AnalyzeStoreFails(r)) \/ AlarmFires \/ Evict \/ Tick

AnalyzeFaultSpec == Init /\ [][AnalyzeFaultNext]_vars

\* Two overlapping invocations of handleAnalyze for the same url.
AnalyzeRace == \E r \in RaceReqs :
  AnalyzeBeginRace(r) \/ AnalyzeCacheCheck(r) \/ AnalyzePolicy(r) \/ AnalyzeStore(r)

RaceNext == AnalyzeRace \/ AlarmFires \/ Tick

RaceSpec == Init /\ [][RaceNext]_vars

\* handleAnalyze for requests that spell one address in two ways.
AnalyzeSpelled == \E r \in Reqs :
  AnalyzeBeginSpelled(r) \/ AnalyzeCacheCheck(r) \/ AnalyzePolicy(r) \/ AnalyzeStore(r)

SpellingNext == AnalyzeSpelled \/ AlarmFires \/ Evict \/ Tick

SpellingSpec == Init /\ [][SpellingNext]_vars

(***************************************************************************)
(* Claims about the TTL cache store.                                       *)
(***************************************************************************)
MinExpiresAt(entries) == MinOf({entries[k].expiresAt : k \in DOMAIN entries})

\* C1: a check that follows a completed store of the same url (with only
\* time passing, restarts, alarms and other checks in between) returns the
\* stored result with its timestamp and expiresAt while now < expiresAt, and
\* a miss (404) once now >= expiresAt, whether or not the entry is still
\* physically present.
C1_RoundTripAndLazyExpiry ==
  (response.op = "check" /\ sinceStore # NoStore /\ response.url = sinceStore.url) =>
     IF now < sinceStore.expiresAt
     THEN /\ response.status = 200
          /\ response.body = [result |-> sinceStore.result,
                               timestamp |-> sinceStore.timestamp,
                               expiresAt |-> sinceStore.expiresAt]
     ELSE response.status = 404

\* C1 witness: a miss for a stored url whose expired entry is still in the
\* map while its wake-up is still pending.
C1_Witness ==
  /\ response.op = "check" /\ response.status = 404
  /\ sinceStore # NoStore /\ response.url = sinceStore.url
  /\ response.url \in DOMAIN cache
  /\ now > sinceStore.timestamp
  /\ alarm # {}

\* C2: after every completed store exactly one wake-up is pending and its
\* time is the minimum expiresAt over all entries of the partition.
C2_AlarmAtMinimumAfterStore ==
  (response.op = "store" /\ response.status = 200) =>
     alarm = {MinExpiresAt(cache)}

\* C3: once the alarm handler has finished, neither the in-memory map nor
\* the persisted entry set holds an entry with expiresAt <= now.
C3_NoExpiredEntryAfterAlarm ==
  response.op = "alarm" =>
     /\ \A k \in DOMAIN cache : cache[k].expiresAt > now
     /\ \A k \in DOMAIN storage : storage[k].expiresAt > now

\* C4: once the alarm handler has finished, if an entry remains in the
\* persisted entry set then a wake-up is pending at the minimum expiresAt of
\* the remaining entries.
C4_AlarmRescheduledWhileEntriesRemain ==
  (response.op = "alarm" /\ DOMAIN storage # {}) =>
     alarm = {MinExpiresAt(storage)}

\* C5: every stored entry is eventually gone from memory and from persisted
\* storage, given only that time advances and pending alarms fire.
C5_EveryEntryEventuallyRemoved ==
  \A u \in Urls :
     (u \in DOMAIN storage) ~> (u \notin DOMAIN storage /\ u \notin DOMAIN cache)

\* C6: a sweep removes exactly the entries created before
\* now - ttlMinutes minutes, keeps every other entry unchanged, and leaves
\* the persisted entry set equal to the reduced in-memory map.
C6_SweepByCreationTime ==
  [][response'.op = "cleanup" =>
       LET cutoff == now - response'.ttlMinutes * MsPerMinute
           kept == {k \in DOMAIN storage : ~(storage[k].timestamp < cutoff)}
       IN  /\ DOMAIN cache' = kept
           /\ \A k \in kept : cache'[k] = storage[k]
           /\ storage' = cache'
           /\ response'.removed = Cardinality(DOMAIN storage \ kept)]_vars

\* C6 witness: a sweep has removed one entry and kept another one, and the
\* one it kept has already expired.
C6_Witness ==
  /\ response.op = "cleanup" /\ response.removed = 1
  /\ \E k \in DOMAIN cache : cache[k].expiresAt <= now

(***************************************************************************)
(* Claims about the rate limiter.                                          *)
(***************************************************************************)
\* C7: a checkRateLimit call is admitted exactly when fewer than maxRequests
\* calls of the same identifier were admitted during the last windowMs
\* milliseconds: maxRequests calls in one window are admitted, the next one
\* in the same window is rejected, and a call made once windowMs has elapsed
\* since the admitted calls is admitted again.
C7_RateLimiterBoundary ==
  /\ rateOutcome.outcome = "rejected" =>
        Len(admitLog[rateOutcome.identifier]) = RateLimitRequestsPerMinute
  /\ rateOutcome.outcome = "admitted" =>
        Len(admitLog[rateOutcome.identifier]) <= RateLimitRequestsPerMinute

\* C7 witness: an identifier that was rejected with a full window is
\* admitted again after the window has elapsed.
C7_Witness ==
  /\ rateOutcome.outcome = "admitted"
  /\ rateOutcome.identifier \in rejected
  /\ Len(admitLog[rateOutcome.identifier]) = 1

\* C8 as stated: in every state every stored list has at most maxRequests
\* elements and every stored timestamp t satisfies now - t < windowMs.
C8_RateWindowFreshInEveryState ==
  \A id \in DOMAIN rateLimitStore :
     /\ Len(rateLimitStore[id]) <= RateLimitRequestsPerMinute
     /\ \A i \in 1..Len(rateLimitStore[id]) : now - rateLimitStore[id][i] < WindowMs

\* C8 amended: every stored list has at most maxRequests elements and every
\* stored timestamp t satisfies last - t < windowMs, where last is the time
\* of the identifier's most recent admitted call (the last stored timestamp).
C8_RateWindowFreshAtLastAdmit ==
  \A id \in DOMAIN rateLimitStore :
     LET requests == rateLimitStore[id]
     IN  /\ Len(requests) <= RateLimitRequestsPerMinute
         /\ requests # <<>>
         /\ requests[Len(requests)] <= now
         /\ \A i \in 1..Len(requests) :
               /\ requests[Len(requests)] - requests[i] < WindowMs
               /\ requests[i] <= requests[Len(requests)]

\* C8 witness: a full list whose timestamps are all older than the window.
C8_Witness ==
  \E id \in DOMAIN rateLimitStore :
     /\ Len(rateLimitStore[id]) = RateLimitRequestsPerMinute
     /\ \A i \in 1..Len(rateLimitStore[id]) : now - rateLimitStore[id][i] >= WindowMs

(***************************************************************************)
(* Claims about /api/analyze.                                              *)
(***************************************************************************)
\* C9: a request answered 400 (url validation) or 429 (rate limit) has
\* issued no cache lookup, no document fetch and no inference call.
C9_FailFastBeforeAnyCall ==
  \A r \in Reqs : req[r].status \in {400, 429} => req[r].calls = <<>>

\* C9 witness: a request with a valid url has been answered 429.
C9_Witness ==
  \E r \in Reqs :
     /\ req[r].pc = "done" /\ req[r].status = 429
     /\ ValidatePolicyUrl(req[r].url)

C12_SameNormalizedUrlIsAHit ==
  \A r \in Reqs :
     (/\ req[r].pc \in {"analyzing", "storing", "done"}
      /\ req[r].status # 429
      /\ req[r].inTtl
      /\ req[r].prev.url # req[r].url
      /\ NormalizedUrl(req[r].prev.url) = NormalizedUrl(req[r].url)) =>
        req[r].pc = "done" /\ req[r].status = 200 /\ req[r].cached

\* C13: every entry of the in-memory map and of the persisted set has
\* expiresAt > timestamp (its creation time), whatever ttlMinutes the store
\* carried. (That a key holds at most one entry is how both maps are built.)
C13_ExpiresAfterCreated ==
  /\ \A k \in DOMAIN cache : cache[k].expiresAt > cache[k].timestamp
  /\ \A k \in DOMAIN storage : storage[k].expiresAt > storage[k].timestamp

\* C14: a request whose analysis succeeded is answered with status 200,
\* cached: false and the fresh result, also when the cache put failed.
C14_FreshResultDespiteFailedPut ==
  \A r \in Reqs :
     (/\ req[r].pc = "done"
      /\ \E i \in DOMAIN req[r].calls : req[r].calls[i] = "score") =>
        /\ req[r].status = 200 /\ ~req[r].cached
        /\ req[r].payload = JsonValue(req[r].result)

\* C15: when all the /store calls the durable object was given have been
\* answered, and they were for different urls, each of these urls has an
\* entry with the stored result in the persisted set, and in the in-memory
\* map of the instance (as long as that instance has not been evicted).
C15_NoLostStore ==
  ((\A c \in StoreCallIds : storeCalls[c].pc = "done")
    /\ (\A c, d \in StoreCallIds : c # d => storeCalls[c].url # storeCalls[d].url)) =>
     \A c \in StoreCallIds :
        /\ storeCalls[c].url \in DOMAIN storage
        /\ storage[storeCalls[c].url].result = storeCalls[c].result
        /\ initialized =>
             /\ storeCalls[c].url \in DOMAIN cache
             /\ cache[storeCalls[c].url].result = storeCalls[c].result

\* C15 witness: two calls for different urls have been answered, one of
\* which initialized the instance from a non-empty persisted set while the
\* other one arrived.
C15_Witness ==
  /\ \A c \in StoreCallIds : storeCalls[c].pc = "done"
  /\ storeCalls["call1"].url # storeCalls["call2"].url
  /\ storeCalls["call1"].storedSet
  /\ storeCalls["call2"].duringRead
  /\ initialized

\* C16: an entry that is live (expiresAt > now) keeps its result, timestamp
\* and expiresAt in every step that does not remove it, in the persisted set
\* and in the in-memory map.
C16_LiveEntryReadOnly ==
  [][/\ \A k \in DOMAIN storage \cap DOMAIN storage' :
          storage[k].expiresAt > now => storage'[k] = storage[k]
     /\ \A k \in DOMAIN cache \cap DOMAIN cache' :
          cache[k].expiresAt > now => cache'[k] = cache[k]]_vars

\* C17: every step of an /api/analyze request other than the store that
\* follows a successful analysis leaves the persisted entry set, the entries
\* the handlers see in memory and the pending alarm as they were; and an
\* entry appears or changes under a url only in the store step of a request
\* for that url whose analysis ran to the end.
C17_OnlySuccessfulAnalysisStores ==
  [][/\ \A r \in Reqs :
          (/\ req'[r] # req[r]
           /\ ~(req[r].pc = "storing" /\ req'[r].status = 200)) =>
             /\ storage' = storage /\ storageSet' = storageSet
             /\ alarm' = alarm
             /\ cache' = cache \/ (~initialized /\ cache' = storage)
     /\ \A k \in DOMAIN storage' :
          (k \notin DOMAIN storage \/ storage'[k] # storage[k]) =>
             \E r \in Reqs :
                /\ req[r].pc = "storing" /\ req[r].url = k
                /\ req'[r].pc = "done" /\ req'[r].status = 200
                /\ \E i \in DOMAIN req[r].calls : req[r].calls[i] = "score"]_vars

\* C17 witness: a request has failed in the analysis, after its lookup missed
\* an expired entry, while the partition holds that entry and an alarm.
C17_Witness ==
  \E r \in Reqs :
     /\ req[r].pc = "done" /\ req[r].status = 500
     /\ req[r].url \in DOMAIN storage
     /\ storage[req[r].url].expiresAt <= now
     /\ alarm # {}

\* C18: a GET /api/results request that names a url or an id is answered 200
\* with the entry's result, timestamp and expiresAt when the cache holds a
\* live entry for the url, and 404 otherwise.
C18_ResultsFoundOrNotFound ==
  (resultsResponse.status # 0
    /\ (resultsResponse.id # "" \/ resultsResponse.url # EmptyUrl)) =>
     IF /\ resultsResponse.url \in DOMAIN storage
        /\ storage[resultsResponse.url].expiresAt > now
     THEN /\ resultsResponse.status = 200
          /\ resultsResponse.body =
               [result |-> storage[resultsResponse.url].result,
                timestamp |-> storage[resultsResponse.url].timestamp,
                expiresAt |-> storage[resultsResponse.url].expiresAt]
     ELSE resultsResponse.status = 404

\* The position of a rating in green < yellow < red.
Severity(rating) ==
  CASE rating = "green" -> 0 [] rating = "yellow" -> 1 [] rating = "red" -> 2

\* C19: the overall rating is the most severe of the regulatory, transparency
\* and userRights ratings, for each of the 27 combinations of the three.
C19_OverallIsMaximum ==
  riskScores # NoScores =>
     LET three == {riskScores.regulatory, riskScores.transparency, riskScores.userRights}
     IN  /\ riskScores.overall \in three
         /\ \A rating \in three : Severity(rating) <= Severity(riskScores.overall)

\* C19 witness: a red transparency rating beside a yellow and a green one
\* gave a red overall rating.
C19_Witness ==
  /\ riskScores.transparency = "red" /\ riskScores.regulatory = "yellow"
  /\ riskScores.userRights = "green"
  /\ riskScores.overall = "red"

\* C20: the scores of an analysis with at least one red flag have a red
\* regulatory rating and a transparency rating of yellow or red, whatever
\* its compliance tags are.
C20_RedFlagForcesRedRegulatory ==
  (analysis # NoAnalysis /\ riskScores # NoScores /\ analysis.redFlags > 0) =>
     /\ riskScores.regulatory = "red"
     /\ riskScores.transparency \in {"yellow", "red"}

\* C21: when a run of the analysis has ended with scores, the regulatory
\* rating is red if a chunk's finding tagged GDPR or CCPA 'non-compliant',
\* and otherwise yellow or red if a chunk's finding tagged one of them
\* 'partially'.
C21_WorstTagDecidesRegulatory ==
  run.pc = "done" =>
     /\ run.sawNonCompliant => run.scores.regulatory = "red"
     /\ (~run.sawNonCompliant /\ run.sawPartially) =>
           run.scores.regulatory \in {"yellow", "red"}

\* The text of an executive summary that is missing or empty.
NoSummaryText == {"", "undefined"}

\* A run that ended with scores after findings that all tag GDPR
\* 'compliant' and carry no red flag.
CleanRun == run.pc = "done" /\ run.allGdprCompliant /\ ~run.sawRedFlag

C23_NoChunkExceedsMaxChunkSize ==
  chunking.done =>
     \A i \in DOMAIN chunking.chunks : chunking.chunks[i].length <= MaxChunkSize

\* A greedily built chunk of at least minChunkSize characters.
AtLeastMinChunkSize(chunk) == chunk.length >= MinChunkLength

\* C24: chunkContent returns, in their order, exactly the greedily built
\* chunks whose length is at least minChunkSize (50), a chunk of exactly 50
\* included.
C24_DiscardedIffShorterThanMin ==
  chunking.done =>
     chunking.chunks = SelectSeq(chunking.greedy, AtLeastMinChunkSize)

\* The hosts that are loopback, in an RFC 1918 range, link-local, or an
\* IPv6 loopback, link-local or unique-local literal.
PrivateHosts ==
  { <<"localhost">>, Dotted("127", "0", "0", "1"), Dotted("10", "1", "2", "3"),
    Dotted("172", "16", "0", "1"), Dotted("172", "31", "0", "1"),
    Dotted("192", "168", "1", "1"), Dotted("169", "254", "169", "254"),
    <<"[", ":", ":", "1", "]">>, Bracketed("fe80"), Bracketed("fc00") }

\* C25: validatePolicyUrl returns the normalized url, with the scheme and the
\* host of the input, for an http or https url with a public host, and throws
\* for a loopback, RFC 1918, link-local or IPv6 loopback, link-local or
\* unique-local host, for another scheme and for an empty or non-string
\* input.
C25_ValidatorSeparatesPublicFromPrivate ==
  validation.outcome # "none" =>
     LET input == validation.input
         httpScheme == LowerCase(input.scheme) \in {"http", "https"}
     IN  IF input.type = "string" /\ httpScheme /\ input.host \notin PrivateHosts
         THEN /\ validation.outcome = "returned"
              /\ validation.href.protocol = LowerCase(input.scheme)
              /\ validation.href.hostname = [i \in DOMAIN input.host |-> LowerCase(input.host[i])]
         ELSE /\ validation.outcome = "thrown"
              /\ validation.href = NoHref

\* A request that the worker has answered or handed to a handler.
Responded == gateway.pc = "responded"

\* The request carries a well-formed X-Extension-Version and an Origin of
\* the extension scheme.
CarriesExtensionHeaders ==
  /\ VersionPatternTest(gateway.request.version)
  /\ gateway.request.origin.scheme = "chrome-extension://"

\* C26: a request that is neither a preflight nor for /api/health reaches
\* the analyze, detect or results handler only with a well-formed
\* X-Extension-Version and a chrome-extension Origin; without either it is
\* answered 403 or another 4xx and no handler runs.
C26_HandlersBehindExtensionHeaders ==
  (Responded /\ gateway.request.method # "OPTIONS"
     /\ gateway.request.pathname # "/api/health") =>
     /\ gateway.handler \in {"analyze", "detect", "results"} => CarriesExtensionHeaders
     /\ ~CarriesExtensionHeaders =>
           (gateway.handler = "none" /\ gateway.status \in 400..499)

\* C27: GET /api/health is handled by handleHealth whatever the headers,
\* and answered 200 exactly when the reported status is 'healthy' and 503
\* otherwise.
C27_HealthIs200Or503 ==
  (Responded /\ gateway.request.method = "GET"
     /\ gateway.request.pathname = "/api/health") =>
     /\ gateway.handler = "health"
     /\ gateway.status \in {200, 503}
     /\ gateway.status = 200 <=> gateway.health = "healthy"
     /\ gateway.status = 503 <=> gateway.health \in {"degraded", "unhealthy"}

\* GET /api/health without a version header and from a web page's origin,
\* answered 503 with status 'degraded'.
C27_Witness ==
  /\ Responded
  /\ gateway.request.method = "GET"
  /\ gateway.request.pathname = "/api/health"
  /\ gateway.request.version = <<>>
  /\ gateway.request.origin.scheme = "https://"
  /\ gateway.status = 503
  /\ gateway.health = "degraded"

\* A request of handleAnalyze whose document fetch was the last thing it
\* did: analyzePolicy threw in fetchPolicyContent.
FetchFailed(r) ==
  /\ req[r].pc = "done"
  /\ Len(req[r].calls) > 0
  /\ req[r].calls[Len(req[r].calls)] = "fetch"

\* C28: a request whose document fetch failed (upstream status not 2xx,
\* content type not HTML, or timeout) is answered 400 or 502, never 500.
C28_FetchFailedIs400Or502 ==
  \A r \in Reqs : FetchFailed(r) => req[r].status \in {400, 502}

\* The inference calls the spec allows for an analysis of n chunks, as the
\* sequence of their starts and ends: one call for each of the first
\* min(3, n) chunks in order, then one summary call.
ExpectedLog(n) ==
  LET k == IF n < 3 THEN n ELSE 3
  IN  [i \in 1..(2 * k + 2) |->
         IF i <= 2 * k
         THEN <<"chunk", (i + 1) \div 2, IF i % 2 = 1 THEN "start" ELSE "end">>
         ELSE <<"summary", 0, IF i % 2 = 1 THEN "start" ELSE "end">>]

\* C29: at most one inference call is in flight; the calls started and ended
\* so far are the beginning of: one call for each of the first min(3, n)
\* chunks, in order, each ended before the next starts, then one summary
\* call; and a run that has ended has made exactly these calls.
C29_SequentialSampleThenSummary ==
  /\ run.inFlight \in {0, 1}
  /\ Len(run.log) <= Len(ExpectedLog(run.chunks))
  /\ run.log = SubSeq(ExpectedLog(run.chunks), 1, Len(run.log))
  /\ run.pc \in {"done", "failed"} => run.log = ExpectedLog(run.chunks)

\* A run over four chunks has ended after three chunk calls and the summary
\* call.
C29_Witness ==
  /\ run.pc = "done"
  /\ run.chunks = 4
  /\ Len(run.log) = 8
  /\ run.log[6] = <<"chunk", 3, "end">>
  /\ run.log[7] = <<"summary", 0, "start">>

\* C30: whatever the chunk inference calls did, every chunk whose call has
\* ended has contributed exactly one finding, and the analysis does not fail
\* because of a finding: it ends with risk scores unless the summary step
\* itself fails.
C30_ChunkDegradationNeverFatal ==
  /\ Len(run.analysis.sections) = run.next - 1
  /\ run.pc = "failed" => run.failedAt = "recommendations.slice"
  /\ run.pc = "done" => run.scores # NoScores

\* C31: whatever the summary inference call did, the analysis does not fail
\* in the summary step, and an analysis that ends has a non-empty
\* executiveSummary and 1 to 5 recommendations.
C31_SummaryDegradationNeverFatal ==
  /\ run.failedAt # "recommendations.slice"
  /\ run.pc = "done" =>
        /\ run.analysis.executiveSummary \notin NoSummaryText
        /\ run.analysis.recommendations \in 1..5

\* C33: a checkRateLimit call that is rejected leaves the rate-limit store
\* as it was for every identifier, and with it the admitted calls that
\* decide when the identifier is admitted again.
C33_RejectionLeavesStoreUnchanged ==
  [][rateOutcome'.outcome = "rejected" =>
       (rateLimitStore' = rateLimitStore /\ admitLog' = admitLog)]_vars

\* A call has been rejected, after time has passed, while the store holds
\* the identifier's full list.
C33_Witness ==
  /\ rateOutcome.outcome = "rejected"
  /\ now > 0
  /\ Len(rateLimitStore[rateOutcome.identifier]) = RateLimitRequestsPerMinute

\* C34: a handleAnalyze request with a valid url that is admitted appends
\* exactly one timestamp, the current time, to its client's admitted calls
\* and to the client's stored list, before the cache lookup is answered;
\* nothing the request does afterwards (cache hit, analysis, failure, store)
\* changes these records; a request with an invalid url records nothing.
C34_AdmittedRequestsConsumeQuota ==
  [][\A r \in Reqs :
       /\ (req[r].pc \in {"idle", "done"} /\ req'[r] # req[r]) =>
            /\ req'[r].pc = "checking" =>
                 /\ req'[r].calls = <<"cacheCheck">>
                 /\ admitLog' = [admitLog EXCEPT ![req'[r].ip] = Append(@, now)]
                 /\ rateLimitStore'[req'[r].ip][Len(rateLimitStore'[req'[r].ip])] = now
            /\ req'[r].url \in InvalidUrls \cup {EmptyUrl} =>
                 /\ req'[r].status = 400
                 /\ admitLog' = admitLog
                 /\ rateLimitStore' = rateLimitStore
       /\ (req[r].pc \notin {"idle", "done"} /\ req'[r] # req[r]) =>
            /\ admitLog' = admitLog
            /\ rateLimitStore' = rateLimitStore]_vars

\* A request answered from the cache and a request whose analysis failed
\* have each used up one admitted call of the client.
C34_Witness ==
  \E r \in Reqs :
     /\ req[r].pc = "done"
     /\ req[r].cached \/ req[r].status = 500
     /\ Len(admitLog[req[r].ip]) = RateLimitRequestsPerMinute
     /\ admitLog[req[r].ip][RateLimitRequestsPerMinute] = now


\* C35: whenever a store, a cleanup or the alarm handler of the cache
\* partition has just completed, with a success or with an error response,
\* also on an instance that was restarted before, the in-memory entry map
\* equals the persisted entry set.
C35_MirrorConsistency ==
  response.op \in {"store", "cleanup", "alarm"} => cache = storage


\* The items of the list are in first-seen order: by chunk, then by position
\* within the chunk.
FirstSeenOrder(list) ==
  \A i, j \in DOMAIN list :
     i < j => \/ list[i][1] < list[j][1]
              \/ list[i][1] = list[j][1] /\ list[i][2] < list[j][2]

\* The cut list is the first items of the merged list, as many as the cap
\* allows.
PrefixUpTo(cut, list, cap) ==
  /\ Len(cut) <= cap
  /\ Len(cut) = IF Len(list) < cap THEN Len(list) ELSE cap
  /\ \A i \in DOMAIN cut : cut[i] = list[i]

\* C32: in every analysis performAIAnalysis returns, keyPoints has at most 10
\* items, redFlags at most 5 and recommendations at most 5, and each list is
\* the prefix of the merged items, which are in chunk order and, within a
\* chunk, in the order of the chunk's list.
C32_ListsCutToFirstSeenPrefix ==
  merge.pc = "done" =>
     /\ Len(merge.keyPoints) <= 10
     /\ Len(merge.redFlags) <= 5
     /\ Len(merge.recommendations) <= 5
     /\ PrefixUpTo(merge.keyPoints, merge.merged.keyPoints, 10)
     /\ PrefixUpTo(merge.redFlags, merge.merged.redFlags, 5)
     /\ PrefixUpTo(merge.recommendations, merge.merged.recommendations, 5)
     /\ FirstSeenOrder(merge.merged.keyPoints)
     /\ FirstSeenOrder(merge.merged.redFlags)
     /\ FirstSeenOrder(merge.merged.recommendations)

\* C32 witness: an analysis was returned whose three merged lists were all
\* longer than their caps, the key points coming from three chunks.
C32_Witness ==
  /\ merge.pc = "done"
  /\ Len(merge.merged.keyPoints) > 10
  /\ Len(merge.merged.redFlags) > 5
  /\ Len(merge.merged.recommendations) > 5
  /\ {item[1] : item \in {merge.merged.keyPoints[i] : i \in DOMAIN merge.merged.keyPoints}} = 1..3


\* C36: a session's history holds at most as many entries as the cap (100
\* in the code), and they are the most recent of the analyses recorded since
\* the session was created or cleared: with the cap exceeded, the oldest
\* ones are the ones missing.
C36_HistoryHoldsMostRecent ==
  \A u \in DOMAIN userSession.sessions :
     LET session == userSession.sessions[u]
         oldest == IF session.analysisCount > HistoryLimit
                   THEN session.analysisCount - HistoryLimit + 1 ELSE 1
     IN  /\ Len(session.history) <= HistoryLimit
         /\ {session.history[i].n : i \in DOMAIN session.history}
               = oldest..session.analysisCount

\* C37: a GET /history request leaves every session as it was, in the map
\* the object holds (as loaded from storage, if this request loaded it) and
\* in persisted storage: the order of the history entries, analysisCount,
\* preferences and lastActivity included.
C37_HistoryReadIsPure ==
  [][userSession'.response.op = "history" =>
       /\ userSession'.sessions = SessionInitialize(userSession).sessions
       /\ userSession'.storage = userSession.storage]_vars

\* The session of u is persisted and its lastActivity is more than 30 days
\* old.
SessionIsOld(u) ==
  /\ u \in DOMAIN userSession.storage
  /\ userSession.storage[u].lastActivity < userSession.clock - 30

\* C38: on a store that starts fresh and gets only create, update, history
\* and clear requests, every session whose lastActivity is more than 30 days
\* old is eventually removed from memory and from storage, unless a request
\* makes it active again.
C38_OldSessionsEventuallyRemoved ==
  \A u \in UserIds :
     SessionIsOld(u) ~>
        \/ u \notin DOMAIN userSession.storage /\ u \notin DOMAIN userSession.sessions
        \/ ~SessionIsOld(u)

====
